---- MODULE Spec2Model ----
(***************************************************************************)
(* Model of MidiDaemon's event dispatch pipeline: the lifecycle of         *)
(* midi.Handler (Start, Close, cancellation), its ingestion goroutine      *)
(* (processEvents / handleEvent / matchesMapping) and the fan-out          *)
(* goroutines that call actions.Manager.Execute.                           *)
(*                                                                         *)
(* The handler talks to its transport through the MIDIPort interface.      *)
(* The port keeps the isOpen flag of linuxMIDIPort / windowsMIDIPort;      *)
(* every interface call that returns an error may fail, the outcome being  *)
(* an input chosen by the environment.  The streams of these two ports are *)
(* never closed, so the `!ok` case of processEvents' select does not occur.*)
(*                                                                         *)
(* A select with several ready cases takes any of them; closing a closed   *)
(* channel panics, which ends the process (no step follows).               *)
(***************************************************************************)
EXTENDS Integers, Sequences, FiniteSets, TLC

\* ---------------------------------------------------------------- bounds
NumClients     == 2  \* goroutines that call Start / Close on the handler
MaxCalls       == 4  \* Start / Close calls in a behaviour of Spec
MaxEvents      == 1  \* events the transport delivers in a behaviour of Spec
DispatchCalls  == 2  \* Start / Close calls in a behaviour of SpecDispatch
DispatchEvents == 2  \* events delivered in a behaviour of SpecDispatch

Clients == 1..NumClients

\* ------------------------------------------------------ values and inputs
NoEvent ==
    [id |-> 0, type |-> "none", channel |-> 0, note |-> 0, velocity |-> 0,
     controller |-> 0, value |-> 0, program |-> 0]

\* midi.MIDIEvent values the transport delivers (id is the delivery number).
EventPool ==
    { [id |-> 0, type |-> "note_on", channel |-> 0, note |-> 60,
       velocity |-> 100, controller |-> 0, value |-> 0, program |-> 0],
      [id |-> 0, type |-> "control_change", channel |-> 3, note |-> 0,
       velocity |-> 0, controller |-> 7, value |-> 90, program |-> 0] }

\* config.MIDIEvent filters
FilterNote60 ==
    [type |-> "note_on", note |-> 60, velocity |-> 0, controller |-> 0,
     value |-> 0, program |-> 0]
FilterNote60Loud ==
    [type |-> "note_on", note |-> 60, velocity |-> 64, controller |-> 0,
     value |-> 0, program |-> 0]

\* config.Action values (type and the parameters the dispatch core carries)
ActVolumeUp == [type |-> "volume", direction |-> "up", percent |-> 5]

MappingA == [name |-> "A", event |-> FilterNote60, action |-> ActVolumeUp, enabled |-> TRUE]
MappingB ==
    [name |-> "B", event |-> FilterNote60Loud,
     action |-> [type |-> "unknown_type", direction |-> "", percent |-> 0],
     enabled |-> TRUE]
MappingC ==
    [name |-> "C",
     event |-> [type |-> "control_change", note |-> 0, velocity |-> 0,
                controller |-> 7, value |-> 64, program |-> 0],
     action |-> ActVolumeUp, enabled |-> TRUE]
MappingD ==
    [name |-> "D", event |-> FilterNote60,
     action |-> [type |-> "volume", direction |-> "mute", percent |-> 0],
     enabled |-> FALSE]

\* Results of MIDIPort.GetPortNames: an error, or an ordered list of names.
PortListings ==
    { [err |-> TRUE,  ports |-> <<>>],
      [err |-> FALSE, ports |-> <<>>],
      [err |-> FALSE, ports |-> <<"ALSA MIDI Port 0", "USB MIDI Interface">>] }

\* No pure function is being applied (the handler specifications).
NoProbe == [st |-> "none"]

\* Executors registered by Manager.registerExecutors.
RegisteredTypes == {"volume", "app_start", "key_combination", "audio_source"}

\* Manager.executors after NewManager: one executor per registered type, each
\* of them an ActionValidator.
ShippedExecutors ==
    [t \in RegisteredTypes |-> [name |-> t, impl |-> t, validates |-> TRUE]]

\* The platform the controllers act on: the level GetVolume reports.
IdlePlatform == [volume |-> 50]

VARIABLES
    config,       \* the *config.Config handed to NewHandler (never written)
    budget,       \* calls, events and event values explored in this behaviour
    probe,        \* one application of a pure function: inputs and result
    executors,    \* Manager.executors: action type -> registered executor
    platform,     \* state behind the platform controllers
    isRunning,    \* Handler.isRunning
    mutex,        \* Handler.mutex: 0 = free, c = write-locked by client c
    portOpen,     \* MIDIPort isOpen
    portName,     \* MIDIPort portName
    doneClosed,   \* Handler.done is closed
    eventChanClosed, \* Handler.eventChan is closed
    panicked,     \* a runtime panic (close of closed channel) ended the process
    ctxDone,      \* the context passed to Start is cancelled
    pc,           \* per client: position inside Start / Close
    sel,          \* per client: local portName of Start
    ret,          \* per client: value returned by its last call
    procs,        \* processEvents goroutines, in creation order
    streams,      \* streams[k]: channel returned by the k-th ReadEvents
    emitted,      \* number of events delivered by the transport
    fanout,       \* fan-out goroutines, in launch order
    handled,      \* events whose handleEvent call has returned
    hist          \* observation record: calls made, port calls made

vars == <<config, budget, probe, executors, platform, isRunning, mutex, portOpen, portName, doneClosed,
          eventChanClosed, panicked, ctxDone, pc, sel, ret, procs,
          streams, emitted, fanout, handled, hist>>

\* ------------------------------------------------------------ pure helpers

\* Start without the running check: every call goes on to open the transport.
StartRejectedNever(running) == FALSE

\* Handler.Start line 77: the call is rejected when the flag is already set.
StartRejected(running) == running

\* Close without the running check: every call tears the handler down.
CloseIsNoopNever(running) == FALSE

\* Handler.Close line 128: the call returns at once when the flag is not set.
CloseIsNoop(running) == ~running

\* Handler.IsRunning: the flag, read under the read lock.
IsRunning == isRunning

\* handleEvent without the channel filter.
ChannelAcceptedAlways(cfg, event) == TRUE

\* handleEvent lines 174-176: the channel filter.
ChannelAccepted(cfg, event) ==
    ~(cfg.channel # -1 /\ event.channel # cfg.channel)

\* matchesMapping with the filter velocity compared for equality.
matchesMappingVelocityEqual(event, mappingEvent) ==
    IF event.type # mappingEvent.type THEN FALSE
    ELSE IF event.type \in {"note_on", "note_off"} THEN
        event.note = mappingEvent.note /\ event.velocity = mappingEvent.velocity
    ELSE IF event.type = "control_change" THEN
        /\ event.controller = mappingEvent.controller
        /\ ~(mappingEvent.value > 0 /\ event.value < mappingEvent.value)
    ELSE IF event.type = "program_change" THEN
        event.program = mappingEvent.program
    ELSE TRUE

\* matchesMapping without the control_change value threshold.
matchesMappingNoValueThreshold(event, mappingEvent) ==
    IF event.type # mappingEvent.type THEN FALSE
    ELSE IF event.type \in {"note_on", "note_off"} THEN
        /\ event.note = mappingEvent.note
        /\ ~(mappingEvent.velocity > 0 /\ event.velocity < mappingEvent.velocity)
    ELSE IF event.type = "control_change" THEN
        event.controller = mappingEvent.controller
    ELSE IF event.type = "program_change" THEN
        event.program = mappingEvent.program
    ELSE TRUE

\* matchesMapping that selects the comparison by the filter's type and never
\* compares the two types.
matchesMappingNoTypeCheck(event, mappingEvent) ==
    IF mappingEvent.type \in {"note_on", "note_off"} THEN
        /\ event.note = mappingEvent.note
        /\ ~(mappingEvent.velocity > 0 /\ event.velocity < mappingEvent.velocity)
    ELSE IF mappingEvent.type = "control_change" THEN
        /\ event.controller = mappingEvent.controller
        /\ ~(mappingEvent.value > 0 /\ event.value < mappingEvent.value)
    ELSE IF mappingEvent.type = "program_change" THEN
        event.program = mappingEvent.program
    ELSE TRUE

\* Handler.matchesMapping
matchesMapping(event, mappingEvent) ==
    IF event.type # mappingEvent.type THEN FALSE
    ELSE IF event.type \in {"note_on", "note_off"} THEN
        IF event.note # mappingEvent.note THEN FALSE
        ELSE IF mappingEvent.velocity > 0 /\ event.velocity < mappingEvent.velocity
             THEN FALSE ELSE TRUE
    ELSE IF event.type = "control_change" THEN
        IF event.controller # mappingEvent.controller THEN FALSE
        ELSE IF mappingEvent.value > 0 /\ event.value < mappingEvent.value
             THEN FALSE ELSE TRUE
    ELSE IF event.type = "program_change" THEN
        IF event.program # mappingEvent.program THEN FALSE ELSE TRUE
    ELSE TRUE

\* The mapping loop without the test of the enabled flag.
FiresIgnoringEnabled(mapping, event) ==
    matchesMapping(event, mapping.event)

\* handleEvent lines 189-193: a mapping is launched when enabled and matching.
Fires(mapping, event) ==
    mapping.enabled /\ matchesMapping(event, mapping.event)

\* Pacing applied whatever the configured delay is.
PacedAlways(cfg) == TRUE

\* handleEvent line 208: the pacing delay applies only when positive.
Paced(cfg) == cfg.actionDelay > 0

\* Manager.Execute lines 86-92: is there an executor for the action type.
HasExecutor(action) == action.type \in RegisteredTypes

\* Values returned by Start and Close.
StartNil          == "Start: nil"
ErrAlreadyRunning == "Start: handler laeuft bereits"
ErrGetPorts       == "Start: fehler beim Abrufen der MIDI-Ports"
ErrNoPorts        == "Start: keine MIDI-Ports verfuegbar"
ErrOpen           == "Start: fehler beim Oeffnen des MIDI-Ports"
ErrReadEvents     == "Start: fehler beim Starten des Event-Streams"
CloseNil          == "Close: nil"
NoReturn          == "none"

TransportErrors == {ErrGetPorts, ErrNoPorts, ErrOpen, ErrReadEvents}

\* ------------------------------------------------------------------- Init

\* NewHandler: flag clear, channels open, port created and not opened.
HandlerInit ==
    /\ executors = ShippedExecutors
    /\ isRunning = FALSE
    /\ mutex = 0
    /\ portOpen = FALSE
    /\ portName = ""
    /\ doneClosed = FALSE
    /\ eventChanClosed = FALSE
    /\ panicked = FALSE
    /\ ctxDone = FALSE
    /\ pc = [c \in Clients |-> "idle"]
    /\ sel = [c \in Clients |-> ""]
    /\ ret = [c \in Clients |-> NoReturn]
    /\ procs = <<>>
    /\ streams = <<>>
    /\ emitted = 0
    /\ fanout = <<>>
    /\ handled = {}
    /\ hist = [starts |-> 0, passed |-> 0, closes |-> 0, portCloses |-> 0,
               closeErr |-> FALSE, opens |-> 0, lists |-> 0,
               lastOp |-> "none", stopped |-> FALSE]

\* Configurations handed to NewHandler.
MappingLists ==
    { <<MappingA>>, <<MappingA, MappingB>>, <<MappingD, MappingC, MappingA>> }

Configs ==
    { [channel |-> ch, actionDelay |-> d, inputPort |-> p, mappings |-> ms] :
        ch \in {-1, 3}, d \in {0, 100}, p \in {"", "USB MIDI Interface"},
        ms \in MappingLists }

\* Spec: the lifecycle under every interleaving of two clients, with one
\* mapping and the pacing delay set.
Init ==
    /\ config \in {c \in Configs : /\ c.mappings = <<MappingA>>
                                   /\ c.actionDelay = 100
                                   /\ c.channel = -1}
    /\ budget = [calls |-> MaxCalls, events |-> MaxEvents, pool |-> EventPool]
    /\ probe = NoProbe
    /\ platform = IdlePlatform
    /\ HandlerInit

\* SpecDispatch: every configuration, with one Start and one Close.
InitDispatch ==
    /\ config \in {c \in Configs : c.inputPort # ""}
    /\ budget = [calls |-> DispatchCalls, events |-> DispatchEvents,
                 pool |-> EventPool]
    /\ probe = NoProbe
    /\ platform = IdlePlatform
    /\ HandlerInit

\* ---------------------------------------------------------- Handler.Start

Return(c, value) ==
    /\ pc' = [pc EXCEPT ![c] = "idle"]
    /\ sel' = [sel EXCEPT ![c] = ""]
    /\ ret' = [ret EXCEPT ![c] = value]

\* StartBegin whose rejection also closes the transport.
StartBeginDisturbing(c) ==
    /\ ~panicked
    /\ pc[c] = "idle"
    /\ hist.starts + hist.closes < budget.calls
    /\ mutex = 0
    /\ IF StartRejected(isRunning)
       THEN /\ Return(c, ErrAlreadyRunning)
            /\ hist' = [hist EXCEPT !.starts = @ + 1]
            /\ portOpen' = FALSE
            /\ UNCHANGED isRunning
       ELSE /\ isRunning' = TRUE
            /\ pc' = [pc EXCEPT ![c] = "resolve"]
            /\ hist' = [hist EXCEPT !.starts = @ + 1, !.passed = @ + 1,
                                    !.lastOp = "start"]
            /\ UNCHANGED <<sel, ret, portOpen>>
    /\ UNCHANGED <<config, budget, probe, executors, platform, mutex, portName, doneClosed, eventChanClosed,
                   panicked, ctxDone, procs, streams, emitted, fanout, handled>>

\* Lines 76-82: lock, test and set the flag, unlock.
StartBegin(c) ==
    /\ ~panicked
    /\ pc[c] = "idle"
    /\ hist.starts + hist.closes < budget.calls
    /\ mutex = 0
    /\ IF StartRejected(isRunning)
       THEN /\ Return(c, ErrAlreadyRunning)
            /\ hist' = [hist EXCEPT !.starts = @ + 1]
            /\ UNCHANGED isRunning
       ELSE /\ isRunning' = TRUE
            /\ pc' = [pc EXCEPT ![c] = "resolve"]
            /\ hist' = [hist EXCEPT !.starts = @ + 1, !.passed = @ + 1,
                                    !.lastOp = "start"]
            /\ UNCHANGED <<sel, ret>>
    /\ UNCHANGED <<config, budget, probe, executors, platform, mutex, portOpen, portName, doneClosed, eventChanClosed,
                   panicked, ctxDone, procs, streams, emitted, fanout, handled>>

\* StartResolve that falls back to the last name the transport lists.
StartResolveLast(c) ==
    /\ ~panicked
    /\ pc[c] = "resolve"
    /\ IF config.inputPort # ""
       THEN /\ sel' = [sel EXCEPT ![c] = config.inputPort]
            /\ pc' = [pc EXCEPT ![c] = "open"]
            /\ UNCHANGED <<ret, hist>>
       ELSE \E listing \in PortListings :
            /\ hist' = [hist EXCEPT !.lists = @ + 1]
            /\ IF listing.err THEN Return(c, ErrGetPorts)
               ELSE IF Len(listing.ports) = 0 THEN Return(c, ErrNoPorts)
               ELSE /\ sel' = [sel EXCEPT ![c] = listing.ports[Len(listing.ports)]]
                    /\ pc' = [pc EXCEPT ![c] = "open"]
                    /\ UNCHANGED ret
    /\ UNCHANGED <<config, budget, probe, executors, platform, isRunning, mutex, portOpen, portName, doneClosed,
                   eventChanClosed, panicked, ctxDone, procs, streams,
                   emitted, fanout, handled>>

\* Lines 87-99: the configured name, or the first name the transport lists.
StartResolve(c) ==
    /\ ~panicked
    /\ pc[c] = "resolve"
    /\ IF config.inputPort # ""
       THEN /\ sel' = [sel EXCEPT ![c] = config.inputPort]
            /\ pc' = [pc EXCEPT ![c] = "open"]
            /\ UNCHANGED <<ret, hist>>
       ELSE \E listing \in PortListings :
            /\ hist' = [hist EXCEPT !.lists = @ + 1]
            /\ IF listing.err THEN Return(c, ErrGetPorts)
               ELSE IF Len(listing.ports) = 0 THEN Return(c, ErrNoPorts)
               ELSE /\ sel' = [sel EXCEPT ![c] = listing.ports[1]]
                    /\ pc' = [pc EXCEPT ![c] = "open"]
                    /\ UNCHANGED ret
    /\ UNCHANGED <<config, budget, probe, executors, platform, isRunning, mutex, portOpen, portName, doneClosed,
                   eventChanClosed, panicked, ctxDone, procs, streams,
                   emitted, fanout, handled>>

\* Lines 101-103: MIDIPort.Open (linuxMIDIPort.Open sets portName and isOpen).
StartOpen(c) ==
    /\ ~panicked
    /\ pc[c] = "open"
    /\ \E fails \in BOOLEAN :
        IF fails
        THEN /\ Return(c, ErrOpen)
             /\ UNCHANGED <<portOpen, portName, hist>>
        ELSE /\ portOpen' = TRUE
             /\ portName' = sel[c]
             /\ hist' = [hist EXCEPT !.opens = @ + 1]
             /\ pc' = [pc EXCEPT ![c] = "read"]
             /\ UNCHANGED <<sel, ret>>
    /\ UNCHANGED <<config, budget, probe, executors, platform, isRunning, mutex, doneClosed, eventChanClosed,
                   panicked, ctxDone, procs, streams, emitted, fanout,
                   handled>>

\* Lines 108-114: MIDIPort.ReadEvents (fails on a port that is not open), then
\* `go h.processEvents(ctx, eventStream)`.
StartReadEvents(c) ==
    /\ ~panicked
    /\ pc[c] = "read"
    /\ \E fails \in BOOLEAN :
        IF fails \/ ~portOpen
        THEN /\ Return(c, ErrReadEvents)
             /\ UNCHANGED <<procs, streams>>
        ELSE /\ streams' = Append(streams, <<>>)
             /\ procs' = Append(procs, [pc |-> "select", ev |-> NoEvent, idx |-> 0])
             /\ pc' = [pc EXCEPT ![c] = "wait"]
             /\ UNCHANGED <<sel, ret>>
    /\ UNCHANGED <<config, budget, probe, executors, platform, isRunning, mutex, portOpen, portName, doneClosed,
                   eventChanClosed, panicked, ctxDone, emitted, fanout,
                   handled, hist>>

\* StartWait that also returns once Close has closed h.done.
StartWaitOrDone(c) ==
    /\ ~panicked
    /\ pc[c] = "wait"
    /\ ctxDone \/ doneClosed
    /\ Return(c, StartNil)
    /\ UNCHANGED <<config, budget, probe, executors, platform, isRunning, mutex, portOpen, portName, doneClosed,
                   eventChanClosed, panicked, ctxDone, procs, streams,
                   emitted, fanout, handled, hist>>

\* Lines 117-120: block until the context is cancelled, return nil.
StartWait(c) ==
    /\ ~panicked
    /\ pc[c] = "wait"
    /\ ctxDone
    /\ Return(c, StartNil)
    /\ UNCHANGED <<config, budget, probe, executors, platform, isRunning, mutex, portOpen, portName, doneClosed,
                   eventChanClosed, panicked, ctxDone, procs, streams,
                   emitted, fanout, handled, hist>>

\* The cancel function of the context handed to Start (main: on SIGINT/SIGTERM).
Cancel ==
    /\ ~panicked
    /\ ~ctxDone
    /\ ctxDone' = TRUE
    /\ UNCHANGED <<config, budget, probe, executors, platform, isRunning, mutex, portOpen, portName, doneClosed,
                   eventChanClosed, panicked, pc, sel, ret, procs,
                   streams, emitted, fanout, handled, hist>>

\* ---------------------------------------------------------- Handler.Close

\* Lines 125-130: lock; return nil at once when the flag is not set.
CloseBegin(c) ==
    /\ ~panicked
    /\ pc[c] = "idle"
    /\ hist.starts + hist.closes < budget.calls
    /\ mutex = 0
    /\ IF CloseIsNoop(isRunning)
       THEN /\ Return(c, CloseNil)
            /\ hist' = [hist EXCEPT !.closes = @ + 1]
            /\ UNCHANGED mutex
       ELSE /\ mutex' = c
            /\ pc' = [pc EXCEPT ![c] = "close_port"]
            /\ hist' = [hist EXCEPT !.closes = @ + 1, !.lastOp = "close"]
            /\ UNCHANGED <<sel, ret>>
    /\ UNCHANGED <<config, budget, probe, executors, platform, isRunning, portOpen, portName, doneClosed,
                   eventChanClosed, panicked, ctxDone, procs, streams, emitted,
                   fanout, handled>>

\* ClosePort that returns the transport's error to the caller of Close.
ClosePortPropagates(c) ==
    /\ ~panicked
    /\ pc[c] = "close_port"
    /\ \E fails \in BOOLEAN :
        /\ portOpen' = IF fails THEN portOpen ELSE FALSE
        /\ hist' = [hist EXCEPT !.portCloses = @ + 1, !.closeErr = fails]
        /\ IF fails
           THEN /\ Return(c, "port close error")
                /\ mutex' = 0
           ELSE /\ pc' = [pc EXCEPT ![c] = "close_done"]
                /\ UNCHANGED <<mutex, sel, ret>>
    /\ UNCHANGED <<config, budget, probe, executors, platform, isRunning, portName, doneClosed,
                   eventChanClosed, panicked, ctxDone, procs,
                   streams, emitted, fanout, handled>>

\* Lines 135-139: MIDIPort.Close; an error is logged (hist.closeErr) and
\* dropped.
ClosePort(c) ==
    /\ ~panicked
    /\ pc[c] = "close_port"
    /\ \E fails \in BOOLEAN :
        /\ portOpen' = IF fails THEN portOpen ELSE FALSE
        /\ hist' = [hist EXCEPT !.portCloses = @ + 1, !.closeErr = fails]
    /\ pc' = [pc EXCEPT ![c] = "close_done"]
    /\ UNCHANGED <<config, budget, probe, executors, platform, isRunning, mutex, portName, doneClosed,
                   eventChanClosed, panicked, ctxDone, sel, ret, procs,
                   streams, emitted, fanout, handled>>

\* Line 142: close(h.done); closing a closed channel panics.
CloseDone(c) ==
    /\ ~panicked
    /\ pc[c] = "close_done"
    /\ IF doneClosed
       THEN /\ panicked' = TRUE
            /\ UNCHANGED <<doneClosed, pc>>
       ELSE /\ doneClosed' = TRUE
            /\ pc' = [pc EXCEPT ![c] = "close_eventChan"]
            /\ UNCHANGED panicked
    /\ UNCHANGED <<config, budget, probe, executors, platform, isRunning, mutex, portOpen, portName,
                   eventChanClosed, ctxDone, sel, ret, procs, streams,
                   emitted, fanout, handled, hist>>

\* Line 143: close(h.eventChan).
CloseEventChan(c) ==
    /\ ~panicked
    /\ pc[c] = "close_eventChan"
    /\ IF eventChanClosed
       THEN /\ panicked' = TRUE
            /\ UNCHANGED <<eventChanClosed, pc>>
       ELSE /\ eventChanClosed' = TRUE
            /\ pc' = [pc EXCEPT ![c] = "close_finish"]
            /\ UNCHANGED panicked
    /\ UNCHANGED <<config, budget, probe, executors, platform, isRunning, mutex, portOpen, portName, doneClosed,
                   ctxDone, sel, ret, procs, streams, emitted, fanout,
                   handled, hist>>

\* Lines 145-146 and the deferred unlock.
CloseFinish(c) ==
    /\ ~panicked
    /\ pc[c] = "close_finish"
    /\ isRunning' = FALSE
    /\ mutex' = 0
    /\ Return(c, CloseNil)
    /\ hist' = [hist EXCEPT !.stopped = TRUE]
    /\ UNCHANGED <<config, budget, probe, executors, platform, portOpen, portName, doneClosed, eventChanClosed,
                   panicked, ctxDone, procs, streams, emitted, fanout,
                   handled>>

\* ---------------------------------------------------------- the transport

\* The transport puts an event on the stream of the k-th ReadEvents call.
\* (The streams of linuxMIDIPort / windowsMIDIPort are never closed.)
TransportEmit(k, e) ==
    /\ ~panicked
    /\ k \in DOMAIN streams
    /\ emitted < budget.events
    /\ emitted' = emitted + 1
    /\ streams' = [streams EXCEPT ![k] = Append(@, [e EXCEPT !.id = emitted + 1])]
    /\ UNCHANGED <<config, budget, probe, executors, platform, isRunning, mutex, portOpen, portName, doneClosed,
                   eventChanClosed, panicked, ctxDone, pc, sel, ret,
                   procs, fanout, handled, hist>>

\* ------------------------------------------- processEvents / handleEvent

\* The state of an ingestion goroutine that goes on to mapping number i of the
\* event it handles; past the last mapping handleEvent returns to the select.
AtMapping(p, i) ==
    IF i > Len(config.mappings)
    THEN [pc |-> "select", ev |-> NoEvent, idx |-> 0]
    ELSE [p EXCEPT !.pc = "eval", !.idx = i]

HandledAfter(p, i) ==
    IF i > Len(config.mappings) THEN handled \cup {p.ev} ELSE handled

\* ProcReceive taking the newest event of the stream instead of the oldest.
ProcReceiveNewest(k) ==
    /\ ~panicked
    /\ k \in DOMAIN procs
    /\ procs[k].pc = "select"
    /\ streams[k] # <<>>
    /\ LET n == Len(streams[k])
           e == streams[k][n]
           p == [procs[k] EXCEPT !.ev = e]
       IN  /\ streams' = [streams EXCEPT ![k] = SubSeq(@, 1, n - 1)]
           /\ IF ChannelAccepted(config, e)
              THEN /\ procs' = [procs EXCEPT ![k] = AtMapping(p, 1)]
                   /\ handled' = HandledAfter(p, 1)
              ELSE /\ procs' = [procs EXCEPT ![k] = AtMapping(p, Len(config.mappings) + 1)]
                   /\ handled' = handled \cup {e}
    /\ UNCHANGED <<config, budget, probe, executors, platform, isRunning, mutex, portOpen, portName, doneClosed,
                   eventChanClosed, panicked, ctxDone, pc, sel, ret,
                   emitted, fanout, hist>>

\* processEvents line 153 and handleEvent lines 174-176: receive one event;
\* an event on another channel is dropped, otherwise the mapping loop begins.
ProcReceive(k) ==
    /\ ~panicked
    /\ k \in DOMAIN procs
    /\ procs[k].pc = "select"
    /\ streams[k] # <<>>
    /\ LET e == Head(streams[k])
           p == [procs[k] EXCEPT !.ev = e]
       IN  /\ streams' = [streams EXCEPT ![k] = Tail(@)]
           /\ IF ChannelAccepted(config, e)
              THEN /\ procs' = [procs EXCEPT ![k] = AtMapping(p, 1)]
                   /\ handled' = HandledAfter(p, 1)
              ELSE /\ procs' = [procs EXCEPT ![k] = AtMapping(p, Len(config.mappings) + 1)]
                   /\ handled' = handled \cup {e}
    /\ UNCHANGED <<config, budget, probe, executors, platform, isRunning, mutex, portOpen, portName, doneClosed,
                   eventChanClosed, panicked, ctxDone, pc, sel, ret,
                   emitted, fanout, hist>>

\* ProcEval that runs Execute inline: the loop goes on only when every task
\* launched so far has returned.
ProcEvalSynchronous(k) ==
    /\ ~panicked
    /\ k \in DOMAIN procs
    /\ procs[k].pc = "eval"
    /\ \A i \in DOMAIN fanout : fanout[i].st \in {"done", "failed"}
    /\ LET p == procs[k]
           m == config.mappings[p.idx]
       IN  IF Fires(m, p.ev)
           THEN /\ fanout' = Append(fanout, [ev |-> p.ev, m |-> p.idx,
                                             action |-> m.action, proc |-> k,
                                             st |-> "launched", calls |-> 0])
                /\ IF Paced(config)
                   THEN /\ procs' = [procs EXCEPT ![k] = [p EXCEPT !.pc = "sleep"]]
                        /\ UNCHANGED handled
                   ELSE /\ procs' = [procs EXCEPT ![k] = AtMapping(p, p.idx + 1)]
                        /\ handled' = HandledAfter(p, p.idx + 1)
           ELSE /\ procs' = [procs EXCEPT ![k] = AtMapping(p, p.idx + 1)]
                /\ handled' = HandledAfter(p, p.idx + 1)
                /\ UNCHANGED fanout
    /\ UNCHANGED <<config, budget, probe, executors, platform, isRunning, mutex, portOpen, portName, doneClosed,
                   eventChanClosed, panicked, ctxDone, pc, sel, ret,
                   streams, emitted, hist>>

\* handleEvent lines 188-211, one iteration: skip a disabled or non-matching
\* mapping; launch the fan-out goroutine of a matching one and, when the
\* delay is positive, go to sleep.
ProcEval(k) ==
    /\ ~panicked
    /\ k \in DOMAIN procs
    /\ procs[k].pc = "eval"
    /\ LET p == procs[k]
           m == config.mappings[p.idx]
       IN  IF Fires(m, p.ev)
           THEN /\ fanout' = Append(fanout, [ev |-> p.ev, m |-> p.idx,
                                             action |-> m.action, proc |-> k,
                                             st |-> "launched", calls |-> 0])
                /\ IF Paced(config)
                   THEN /\ procs' = [procs EXCEPT ![k] = [p EXCEPT !.pc = "sleep"]]
                        /\ UNCHANGED handled
                   ELSE /\ procs' = [procs EXCEPT ![k] = AtMapping(p, p.idx + 1)]
                        /\ handled' = HandledAfter(p, p.idx + 1)
           ELSE /\ procs' = [procs EXCEPT ![k] = AtMapping(p, p.idx + 1)]
                /\ handled' = HandledAfter(p, p.idx + 1)
                /\ UNCHANGED fanout
    /\ UNCHANGED <<config, budget, probe, executors, platform, isRunning, mutex, portOpen, portName, doneClosed,
                   eventChanClosed, panicked, ctxDone, pc, sel, ret,
                   streams, emitted, hist>>

\* handleEvent line 209: time.Sleep returns.
ProcWake(k) ==
    /\ ~panicked
    /\ k \in DOMAIN procs
    /\ procs[k].pc = "sleep"
    /\ procs' = [procs EXCEPT ![k] = AtMapping(procs[k], procs[k].idx + 1)]
    /\ handled' = HandledAfter(procs[k], procs[k].idx + 1)
    /\ UNCHANGED <<config, budget, probe, executors, platform, isRunning, mutex, portOpen, portName, doneClosed,
                   eventChanClosed, panicked, ctxDone, pc, sel, ret,
                   streams, emitted, fanout, hist>>

\* ProcCtxDone for a select that prefers the stream: the ctx.Done() case is
\* taken only when no event is waiting.
ProcCtxDoneWhenIdle(k) ==
    /\ ~panicked
    /\ k \in DOMAIN procs
    /\ procs[k].pc = "select"
    /\ ctxDone
    /\ streams[k] = <<>>
    /\ procs' = [procs EXCEPT ![k] = [@ EXCEPT !.pc = "exited"]]
    /\ UNCHANGED <<config, budget, probe, executors, platform, isRunning, mutex, portOpen, portName, doneClosed,
                   eventChanClosed, panicked, ctxDone, pc, sel, ret,
                   streams, emitted, fanout, handled, hist>>

\* processEvents lines 160-162: the select takes the ctx.Done() case.
ProcCtxDone(k) ==
    /\ ~panicked
    /\ k \in DOMAIN procs
    /\ procs[k].pc = "select"
    /\ ctxDone
    /\ procs' = [procs EXCEPT ![k] = [@ EXCEPT !.pc = "exited"]]
    /\ UNCHANGED <<config, budget, probe, executors, platform, isRunning, mutex, portOpen, portName, doneClosed,
                   eventChanClosed, panicked, ctxDone, pc, sel, ret,
                   streams, emitted, fanout, handled, hist>>

\* processEvents lines 164-166: the select takes the h.done case.
ProcDone(k) ==
    /\ ~panicked
    /\ k \in DOMAIN procs
    /\ procs[k].pc = "select"
    /\ doneClosed
    /\ procs' = [procs EXCEPT ![k] = [@ EXCEPT !.pc = "exited"]]
    /\ UNCHANGED <<config, budget, probe, executors, platform, isRunning, mutex, portOpen, portName, doneClosed,
                   eventChanClosed, panicked, ctxDone, pc, sel, ret,
                   streams, emitted, fanout, handled, hist>>

\* ------------------------------------------------- fan-out goroutines

\* handleEvent line 198: the goroutine calls h.actionMgr.Execute(m.Action).
FanOutCall(i) ==
    /\ ~panicked
    /\ i \in DOMAIN fanout
    /\ fanout[i].st = "launched"
    /\ fanout' = [fanout EXCEPT ![i].st = "executing", ![i].calls = @ + 1]
    /\ UNCHANGED <<config, budget, probe, executors, platform, isRunning, mutex, portOpen, portName, doneClosed,
                   eventChanClosed, panicked, ctxDone, pc, sel, ret,
                   procs, streams, emitted, handled>>
    /\ UNCHANGED hist

\* A fan-out goroutine whose Execute error is not caught but ends the process.
FanOutReturnFatal(i) ==
    /\ ~panicked
    /\ i \in DOMAIN fanout
    /\ fanout[i].st = "executing"
    /\ \E fails \in BOOLEAN :
        IF ~HasExecutor(fanout[i].action) \/ fails
        THEN /\ fanout' = [fanout EXCEPT ![i].st = "failed"]
             /\ panicked' = TRUE
        ELSE /\ fanout' = [fanout EXCEPT ![i].st = "done"]
             /\ UNCHANGED panicked
    /\ UNCHANGED <<config, budget, probe, executors, platform, isRunning, mutex, portOpen, portName, doneClosed,
                   eventChanClosed, ctxDone, pc, sel, ret,
                   procs, streams, emitted, handled, hist>>

\* Manager.Execute returns: an error when no executor is registered for the
\* type or when the executor fails; handleEvent lines 198-204 log the error.
FanOutReturn(i) ==
    /\ ~panicked
    /\ i \in DOMAIN fanout
    /\ fanout[i].st = "executing"
    /\ \E fails \in BOOLEAN :
        fanout' = [fanout EXCEPT ![i].st =
                      IF ~HasExecutor(fanout[i].action) \/ fails
                      THEN "failed" ELSE "done"]
    /\ UNCHANGED <<config, budget, probe, executors, platform, isRunning, mutex, portOpen, portName, doneClosed,
                   eventChanClosed, panicked, ctxDone, pc, sel, ret,
                   procs, streams, emitted, handled, hist>>

\* ------------------------------------------------------------------- Next

Next ==
    \/ \E c \in Clients : StartBegin(c)
    \/ \E c \in Clients : StartResolve(c)
    \/ \E c \in Clients : StartOpen(c)
    \/ \E c \in Clients : StartReadEvents(c)
    \/ \E c \in Clients : StartWait(c)
    \/ Cancel
    \/ \E c \in Clients : CloseBegin(c)
    \/ \E c \in Clients : ClosePort(c)
    \/ \E c \in Clients : CloseDone(c)
    \/ \E c \in Clients : CloseEventChan(c)
    \/ \E c \in Clients : CloseFinish(c)
    \/ \E k \in DOMAIN streams, e \in budget.pool : TransportEmit(k, e)
    \/ \E k \in DOMAIN procs : ProcReceive(k)
    \/ \E k \in DOMAIN procs : ProcEval(k)
    \/ \E k \in DOMAIN procs : ProcWake(k)
    \/ \E k \in DOMAIN procs : ProcCtxDone(k)
    \/ \E k \in DOMAIN procs : ProcDone(k)
    \/ \E i \in DOMAIN fanout : FanOutCall(i)
    \/ \E i \in DOMAIN fanout : FanOutReturn(i)

Spec == Init /\ [][Next]_vars

SpecDispatch == InitDispatch /\ [][Next]_vars

\* ================================================================ lifecycle

\* Client c's latest call is a Start that passed the running check.
StartPassed(c) ==
    \/ pc[c] \in {"resolve", "open", "read", "wait"}
    \/ pc[c] = "idle" /\ ret[c] \in TransportErrors \cup {StartNil}

\* Client c's latest call is a Start that was rejected.
StartRefused(c) == pc[c] = "idle" /\ ret[c] = ErrAlreadyRunning

\* C1: as long as no Close has torn the handler down, at most one Start call
\* has passed the running check and at most one processEvents goroutine
\* exists; and when two clients have each made one Start call, exactly one of
\* the two passed and the other returned the "already running" error.
C1_ConcurrentStartOneWins ==
    ~doneClosed =>
        /\ hist.passed <= 1
        /\ Len(procs) <= 1
        /\ \A c, d \in Clients :
            (/\ c # d
             /\ hist.starts = 2
             /\ StartPassed(c) \/ StartRefused(c)
             /\ StartPassed(d) \/ StartRefused(d))
            => \/ StartPassed(c) /\ StartRefused(d)
               \/ StartPassed(d) /\ StartRefused(c)

\* C1 witness: two Start calls were made, one client blocks in Start with its
\* ingestion goroutine created, the other got the "already running" error.
C1_Witness ==
    /\ ~doneClosed
    /\ hist.starts = 2
    /\ hist.closes = 0
    /\ \E c, d \in Clients :
        /\ pc[c] = "wait"
        /\ StartRefused(d)
    /\ Len(procs) = 1

\* C2 (as claimed): when the only Start call made so far has returned a
\* transport error, IsRunning() is false and no ingestion goroutine exists.
C2_FailedStartLeavesNotRunning ==
    \A c \in Clients :
        (hist.starts = 1 /\ pc[c] = "idle" /\ ret[c] \in TransportErrors)
        => (~IsRunning /\ Len(procs) = 0)

\* C3 (as claimed): no close of an already closed channel ever happens (such
\* a close is a runtime panic).
C3_ChannelsClosedAtMostOnce == ~panicked

\* The effects a Close call that does something would have.
CloseTouchesNothing(c) ==
    /\ pc'[c] = "idle"
    /\ ret'[c] = CloseNil
    /\ ~isRunning'
    /\ UNCHANGED <<isRunning, mutex, portOpen, portName, doneClosed,
                   eventChanClosed, panicked>>
    /\ hist'.portCloses = hist.portCloses

\* C4: a Close call that follows a Close of the running handler, with no
\* Start in between, returns nil, leaves the flag false, makes no
\* MIDIPort.Close call and closes no channel.
C4_SecondCloseIsNoop ==
    [][\A c \in Clients :
        (CloseBegin(c) /\ hist.lastOp = "close") => CloseTouchesNothing(c)]_vars

\* C4 witness: one Start, then two Close calls that have both returned: the
\* port was closed once and the handler is not running.
C4_Witness ==
    /\ hist.passed = 1
    /\ hist.closes = 2
    /\ hist.stopped
    /\ hist.portCloses = 1
    /\ \A c \in Clients : pc[c] = "idle"
    /\ \E c \in Clients : ret[c] = CloseNil
    /\ ~isRunning
    /\ ~panicked

\* C7 (as claimed): once a Close call that stopped the handler has returned,
\* no ingestion goroutine takes a further event from its stream.
C7_NoIngestAfterClose ==
    [][hist.stopped => \A k \in DOMAIN procs : ~ProcReceive(k)]_vars

\* C8 (as claimed): once the context is cancelled and the one Start call has
\* returned nil, IsRunning() is false and the port is closed, without Close.
C8_CancelAloneStops ==
    \A c \in Clients :
        (/\ ctxDone
         /\ hist.starts = 1
         /\ hist.closes = 0
         /\ pc[c] = "idle"
         /\ ret[c] = StartNil)
        => (~IsRunning /\ ~portOpen)

\* C9 (as claimed): once a Close call has stopped the handler, the running
\* flag is never set again.
C9_StoppedIsTerminal == hist.stopped => ~IsRunning

\* ================================================================= dispatch

\* The mappings that must fire for an event: enabled and matching.
FiringMappings(e) ==
    {i \in DOMAIN config.mappings :
        /\ config.mappings[i].enabled
        /\ matchesMapping(e, config.mappings[i].event)}

\* The fan-out goroutines launched for an event.
TasksOf(e) == {i \in DOMAIN fanout : fanout[i].ev = e}

\* The number of Manager.Execute calls made for an event.
RECURSIVE SumCalls(_)
SumCalls(tasks) ==
    IF tasks = {} THEN 0
    ELSE LET i == CHOOSE j \in tasks : TRUE
         IN  fanout[i].calls + SumCalls(tasks \ {i})

AllReturned(e) == \A i \in TasksOf(e) : fanout[i].st \in {"done", "failed"}

\* C5: for every accepted event whose handling is complete, one fan-out
\* goroutine exists for each enabled matching mapping and for no other, each
\* carries the action of its own mapping and makes at most one Execute call,
\* also after a failure; once all have returned, the Execute calls made for
\* the event number exactly the enabled matching mappings.
C5_ExecuteCountIsMatchCount ==
    /\ \A e \in handled :
        ChannelAccepted(config, e) =>
            /\ {fanout[i].m : i \in TasksOf(e)} = FiringMappings(e)
            /\ Cardinality(TasksOf(e)) = Cardinality(FiringMappings(e))
            /\ SumCalls(TasksOf(e)) <= Cardinality(FiringMappings(e))
            /\ AllReturned(e) =>
                   SumCalls(TasksOf(e)) = Cardinality(FiringMappings(e))
    /\ \A i \in DOMAIN fanout :
        /\ fanout[i].action = config.mappings[fanout[i].m].action
        /\ fanout[i].calls <= 1
        /\ fanout[i].st \in {"done", "failed"} => fanout[i].calls = 1

\* C5 witness: an event with two enabled matching mappings was handled, both
\* Execute calls were made and returned, one of them with an error.
C5_Witness ==
    \E e \in handled :
        /\ Cardinality(FiringMappings(e)) = 2
        /\ AllReturned(e)
        /\ SumCalls(TasksOf(e)) = 2
        /\ \E i \in TasksOf(e) : fanout[i].st = "failed"
        /\ \E i \in TasksOf(e) : fanout[i].st = "done"

\* C6: the step in which an Execute call returns an error changes nothing
\* but that fan-out goroutine: the ingestion goroutines, their streams, the
\* other fan-out goroutines and the process itself go on as before.
C6_FailedExecuteIsIsolated ==
    [][\A i \in DOMAIN fanout :
        (fanout[i].st = "executing" /\ fanout'[i].st = "failed")
        => /\ UNCHANGED <<procs, streams, handled, panicked, doneClosed,
                          ctxDone, isRunning>>
           /\ Len(fanout') = Len(fanout)
           /\ \A j \in DOMAIN fanout : j # i => fanout'[j] = fanout[j]]_vars

\* C6 witness: an Execute call of the first of two events failed, a later
\* mapping of the same event was launched, the later event was handled with
\* its own fan-out, and the ingestion goroutine is still at its select.
C6_Witness ==
    \E i, j, l \in DOMAIN fanout :
        /\ fanout[i].st = "failed"
        /\ fanout[j].ev = fanout[i].ev
        /\ fanout[j].m > fanout[i].m
        /\ fanout[l].ev.id > fanout[i].ev.id
        /\ fanout[l].ev \in handled
        /\ procs[fanout[i].proc].pc = "select"
        /\ ~panicked

\* C10: with a channel filter c # -1 no event of another channel is ever in
\* the mapping loop or has a fan-out goroutine; with c = -1 the mappings
\* fired for a handled event are those that fire for the same event on any
\* other channel.
C10_ChannelFilter ==
    /\ config.channel # -1 =>
        /\ \A i \in DOMAIN fanout : fanout[i].ev.channel = config.channel
        /\ \A k \in DOMAIN procs :
            procs[k].pc \in {"eval", "sleep"} => procs[k].ev.channel = config.channel
    /\ config.channel = -1 =>
        \A e \in handled : \A ch \in 0..15 :
            {fanout[i].m : i \in TasksOf(e)}
                = FiringMappings([e EXCEPT !.channel = ch])

\* C10 witness: under channel filter 3 an event of channel 0 that matches an
\* enabled mapping was dropped without fan-out, and an event of channel 3 fired.
C10_Witness ==
    /\ config.channel = 3
    /\ \E e \in handled :
        /\ e.channel = 0
        /\ FiringMappings(e) # {}
        /\ TasksOf(e) = {}
    /\ \E e \in handled :
        /\ e.channel = 3
        /\ TasksOf(e) # {}

\* C11: a mapping whose enabled flag is false never has a fan-out goroutine
\* (hence no Execute call) and the ingestion goroutine never sleeps the pacing
\* delay at it, whether or not its filter matches the event.
C11_DisabledNeverFires ==
    /\ \A i \in DOMAIN fanout : config.mappings[fanout[i].m].enabled
    /\ \A k \in DOMAIN procs :
        procs[k].pc = "sleep" => config.mappings[procs[k].idx].enabled

\* C11 witness: an event was handled that matches the filter of a disabled
\* mapping; that mapping has no fan-out goroutine, an enabled one has.
C11_Witness ==
    \E e \in handled : \E d \in DOMAIN config.mappings :
        /\ ~config.mappings[d].enabled
        /\ matchesMapping(e, config.mappings[d].event)
        /\ \A i \in TasksOf(e) : fanout[i].m # d
        /\ TasksOf(e) # {}

\* ========================================================== matchesMapping

\* Event types: the four of the MIDIEvent comment and one that is not.
KnownTypes == {"note_on", "note_off", "control_change", "program_change"}
MatchTypes == KnownTypes \cup {"sysex"}

\* Events and filters matchesMapping is applied to in SpecMatch.
MatchEvents ==
    { [id |-> 0, type |-> t, channel |-> 0, note |-> n, velocity |-> v,
       controller |-> c, value |-> w, program |-> g] :
        t \in MatchTypes, n \in {60, 61}, v \in {30, 64, 100},
        c \in {7, 8}, w \in {30, 64, 90}, g \in {1, 2} }

MatchFilters ==
    { [type |-> t, note |-> n, velocity |-> v, controller |-> c, value |-> w,
       program |-> g] :
        t \in MatchTypes, n \in {60, 61}, v \in {0, 64},
        c \in {7, 8}, w \in {0, 64}, g \in {1, 2} }

\* A handler that is never started, and one pair of inputs.
InitMatch ==
    /\ config = [channel |-> -1, actionDelay |-> 0, inputPort |-> "",
                 mappings |-> <<>>]
    /\ budget = [calls |-> 0, events |-> 0, pool |-> {}]
    /\ probe \in [st : {"input"}, event : MatchEvents, filter : MatchFilters,
                  result : {FALSE}]
    /\ platform = IdlePlatform
    /\ HandlerInit

\* One call h.matchesMapping(event, mappingEvent).
MatchApply ==
    /\ probe.st = "input"
    /\ probe' = [probe EXCEPT !.st = "done",
                              !.result = matchesMapping(probe.event, probe.filter)]
    /\ UNCHANGED <<config, budget, executors, platform, isRunning, mutex, portOpen, portName,
                   doneClosed, eventChanClosed, panicked, ctxDone, pc, sel, ret,
                   procs, streams, emitted, fanout, handled, hist>>

NextMatch == MatchApply

SpecMatch == InitMatch /\ [][NextMatch]_vars

\* C12 (as claimed): the result is false for every filter whose type is not
\* one of the four known types.
C12_UnknownTypeNeverMatches ==
    (probe.st = "done" /\ probe.filter.type \notin KnownTypes)
    => probe.result = FALSE

\* C13: for a note_on / note_off filter and an event of the same type the
\* result is: equal note, and filter velocity 0 or event velocity >= filter
\* velocity.
C13_NoteVelocityThreshold ==
    (/\ probe.st = "done"
     /\ probe.filter.type \in {"note_on", "note_off"}
     /\ probe.event.type = probe.filter.type)
    => probe.result =
         (/\ probe.event.note = probe.filter.note
          /\ \/ probe.filter.velocity = 0
             \/ probe.event.velocity >= probe.filter.velocity)

\* C13 witness: a note filter with velocity 64 matched an event of the same
\* note with velocity 100.
C13_Witness ==
    /\ probe.st = "done"
    /\ probe.filter.type = "note_on"
    /\ probe.event.type = "note_on"
    /\ probe.event.note = probe.filter.note
    /\ probe.filter.velocity = 64
    /\ probe.event.velocity = 100
    /\ probe.result = TRUE

\* C15: for an event and a filter of different types the result is false
\* whatever the other fields are, and the call leaves the handler as
\* NewHandler built it.
C15_DifferentTypesNeverMatch ==
    probe.st = "done" =>
        /\ probe.event.type # probe.filter.type => probe.result = FALSE
        /\ HandlerInit

\* C15 witness: the types differ while every other compared field would
\* match; the result is false.
C15_Witness ==
    /\ probe.st = "done"
    /\ probe.event.type = "note_off"
    /\ probe.filter.type = "note_on"
    /\ probe.event.note = probe.filter.note
    /\ probe.filter.velocity = 0
    /\ probe.result = FALSE

\* ============================================== control_change dispatch

\* control_change events on channel 3 the transport delivers in SpecCC.
CCEvents ==
    { [id |-> 0, type |-> "control_change", channel |-> 3, note |-> 0,
       velocity |-> 0, controller |-> c, value |-> w, program |-> 0] :
        c \in {7, 8}, w \in {30, 64, 90} }

\* The mapping {control_change, controller 7, value v} -> volume up 5.
MappingCC(v) == [MappingC EXCEPT !.event.value = v]

\* SpecCC: the single control_change mapping with filter value 0 or 64, no
\* channel filter, and control_change events from the transport.
InitCC ==
    /\ config \in { [channel |-> -1, actionDelay |-> 100,
                     inputPort |-> "USB MIDI Interface",
                     mappings |-> <<MappingCC(v)>>] : v \in {0, 64} }
    /\ budget = [calls |-> DispatchCalls, events |-> DispatchEvents,
                 pool |-> CCEvents]
    /\ probe = NoProbe
    /\ platform = IdlePlatform
    /\ HandlerInit

SpecCC == InitCC /\ [][Next]_vars

\* C14: a handled control_change event has a fan-out task iff its controller
\* equals the filter's and, when the filter value is > 0, its value is >= the
\* filter value; there is then exactly one task, its Execute is called with
\* volume / up / 5, and once it has returned Execute was called exactly once.
\* (With filter value 64: value 90 gives one call, value 30 none.)
C14_ControlChangeThreshold ==
    LET f == config.mappings[1].event
    IN  \A e \in handled :
            IF /\ e.controller = f.controller
               /\ (f.value > 0 => e.value >= f.value)
            THEN /\ Cardinality(TasksOf(e)) = 1
                 /\ \A i \in TasksOf(e) :
                        /\ fanout[i].action =
                             [type |-> "volume", direction |-> "up", percent |-> 5]
                        /\ fanout[i].calls <= 1
                        /\ fanout[i].st # "launched" => fanout[i].calls = 1
            ELSE TasksOf(e) = {}

\* C14 witness: filter {controller 7, value 64}; the event with value 90 was
\* handled and its one task has returned from its one Execute call, and the
\* event with value 30 was handled with no task.
C14_Witness ==
    /\ config.mappings[1].event.value = 64
    /\ \E e \in handled :
        /\ e.controller = 7 /\ e.value = 90 /\ e.channel = 3
        /\ Cardinality(TasksOf(e)) = 1
        /\ AllReturned(e)
        /\ SumCalls(TasksOf(e)) = 1
    /\ \E e \in handled :
        /\ e.controller = 7 /\ e.value = 30 /\ e.channel = 3
        /\ TasksOf(e) = {}

\* ============================================================= ordering

\* C16: (a) the events on a stream are in delivery order and were all
\* delivered after the event its ingestion goroutine is handling; (b) the
\* fan-out tasks of one ingestion goroutine were launched in delivery order
\* of their events and, for one event, in configuration order of their
\* mappings; (c) a stream changes only by a delivery at its end or by its
\* goroutine, waiting in the select, taking its oldest event; (d) a goroutine
\* begins the mapping loop of an event only from the select, that is after
\* the loop of the previous event has ended, with the oldest event of its
\* stream at the first mapping.
C16_SequentialOrderedIngestion ==
    /\ [](/\ \A k \in DOMAIN procs : \A x \in DOMAIN streams[k] :
              /\ procs[k].pc \in {"eval", "sleep"}
                   => streams[k][x].id > procs[k].ev.id
              /\ \A y \in DOMAIN streams[k] :
                   x < y => streams[k][x].id < streams[k][y].id
          /\ \A i \in DOMAIN fanout : \A j \in DOMAIN fanout :
              (i < j /\ fanout[i].proc = fanout[j].proc) =>
                  \/ fanout[i].ev.id < fanout[j].ev.id
                  \/ fanout[i].ev = fanout[j].ev /\ fanout[i].m < fanout[j].m)
    /\ [][\A k \in DOMAIN procs :
            /\ streams'[k] # streams[k] =>
                \/ /\ Len(streams'[k]) = Len(streams[k]) + 1
                   /\ SubSeq(streams'[k], 1, Len(streams[k])) = streams[k]
                \/ /\ procs[k].pc = "select"
                   /\ streams[k] # <<>>
                   /\ streams'[k] = Tail(streams[k])
            /\ (procs'[k].pc \in {"eval", "sleep"} /\ procs'[k].ev # procs[k].ev) =>
                /\ procs[k].pc = "select"
                /\ streams[k] # <<>>
                /\ procs'[k].ev = Head(streams[k])
                /\ streams'[k] = Tail(streams[k])
                /\ procs'[k].pc = "eval"
                /\ procs'[k].idx = 1
         ]_vars

\* C16 witness: two events were handled, the first launched two tasks (for
\* two mappings) and the second launched a task after them.
C16_Witness ==
    /\ Cardinality(handled) = 2
    /\ \E i \in DOMAIN fanout : \E j \in DOMAIN fanout : \E l \in DOMAIN fanout :
        /\ i < j /\ j < l
        /\ fanout[i].ev = fanout[j].ev
        /\ fanout[i].m # fanout[j].m
        /\ fanout[l].ev # fanout[i].ev

\* =============================================================== pacing

\* SpecPacing: a negative, a zero and a positive inter-action delay, with a
\* mapping list of two matching mappings and one of a disabled, a
\* non-matching and a matching mapping.
InitPacing ==
    /\ config \in { [channel |-> -1, actionDelay |-> d,
                     inputPort |-> "USB MIDI Interface", mappings |-> ms] :
                     d \in {-5, 0, 100},
                     ms \in {<<MappingA, MappingB>>,
                             <<MappingD, MappingC, MappingA>>} }
    /\ budget = [calls |-> DispatchCalls, events |-> DispatchEvents,
                 pool |-> EventPool]
    /\ probe = NoProbe
    /\ platform = IdlePlatform
    /\ HandlerInit

SpecPacing == InitPacing /\ [][Next]_vars

\* C17: one iteration of the mapping loop ends in the pacing sleep exactly
\* when the delay is > 0 and the mapping is enabled and matches; the sleep
\* begins in the step that launches the task (the task has not called Execute
\* yet) and stays at that mapping; the step that ends the sleep goes on to the
\* next mapping.
C17_PacingAfterLaunch ==
    [][\A k \in DOMAIN procs :
        /\ (procs[k].pc = "eval" /\ procs'[k] # procs[k]) =>
            /\ procs'[k].pc = "sleep" <=>
                 /\ config.actionDelay > 0
                 /\ Fires(config.mappings[procs[k].idx], procs[k].ev)
            /\ procs'[k].pc = "sleep" =>
                 /\ procs'[k].idx = procs[k].idx
                 /\ procs'[k].ev = procs[k].ev
                 /\ Len(fanout') = Len(fanout) + 1
                 /\ fanout'[Len(fanout')].st = "launched"
                 /\ fanout'[Len(fanout')].m = procs[k].idx
                 /\ fanout'[Len(fanout')].ev = procs[k].ev
        /\ (procs[k].pc = "sleep" /\ procs'[k] # procs[k]) =>
            procs'[k] = AtMapping(procs[k], procs[k].idx + 1)
        /\ (procs[k].pc # "eval" /\ procs'[k].pc = "sleep") =>
            procs[k].pc = "sleep"
      ]_vars

\* C17 witness: with a positive delay the ingestion goroutine sleeps at the
\* third mapping, whose task is launched and has not called Execute; the
\* disabled first and the non-matching second mapping launched nothing.
C17_Witness ==
    /\ config.actionDelay > 0
    /\ config.mappings = <<MappingD, MappingC, MappingA>>
    /\ \E k \in DOMAIN procs :
        /\ procs[k].pc = "sleep"
        /\ procs[k].idx = 3
        /\ \E i \in DOMAIN fanout :
            /\ TasksOf(procs[k].ev) = {i}
            /\ fanout[i].m = 3
            /\ fanout[i].st = "launched"

\* C18 (as claimed): the ingestion goroutine sleeps the pacing delay only
\* when a later mapping of the same event is still to be launched; after the
\* last matching mapping it is free to take the next event.
C18_NoPacingAfterLastMatch ==
    \A k \in DOMAIN procs :
        procs[k].pc = "sleep" =>
            \E j \in DOMAIN config.mappings :
                /\ j > procs[k].idx
                /\ Fires(config.mappings[j], procs[k].ev)

\* ======================================================== blocked Execute

\* Some fan-out goroutine is inside an Execute call that has not returned.
SomeExecuteBlocked == \E i \in DOMAIN fanout : fanout[i].st = "executing"

\* C19: while an Execute call has not returned, the ingestion goroutine can
\* always take its next step (evaluate the next mapping, end its sleep, take
\* the next event of the stream) and every launched task can call Execute.
C19_BlockedExecuteBlocksNothing ==
    (SomeExecuteBlocked /\ ~panicked) =>
        /\ \A k \in DOMAIN procs :
            /\ procs[k].pc = "eval" => ENABLED ProcEval(k)
            /\ procs[k].pc = "sleep" => ENABLED ProcWake(k)
            /\ (procs[k].pc = "select" /\ streams[k] # <<>>)
                 => ENABLED ProcReceive(k)
        /\ \A i \in DOMAIN fanout :
            fanout[i].st = "launched" => ENABLED FanOutCall(i)

\* C19 witness: an Execute call has not returned, while a task launched
\* after it, for a later event, has completed and that event is handled.
C19_Witness ==
    \E i \in DOMAIN fanout : \E j \in DOMAIN fanout :
        /\ i < j
        /\ fanout[i].st = "executing"
        /\ fanout[j].st = "done"
        /\ fanout[j].ev.id > fanout[i].ev.id
        /\ fanout[j].ev \in handled

\* ================================================== tasks after the stop

\* C20 (as claimed): whatever cancellation and Close have done, a launched
\* task can still call Execute and a task inside Execute can still return.
C20_LaunchedTasksRunToCompletion ==
    \A i \in DOMAIN fanout :
        /\ fanout[i].st = "launched" => ENABLED FanOutCall(i)
        /\ fanout[i].st = "executing" => ENABLED FanOutReturn(i)

\* ========================================================= Start blocks

\* C21: a Start call that has launched the ingestion goroutine leaves its
\* wait only when the context is cancelled, and then returns nil; a completed
\* Close does not end the wait.
C21_StartReturnsOnlyOnCancel ==
    [][\A c \in Clients :
        (pc[c] = "wait" /\ pc'[c] # "wait") =>
            /\ ctxDone
            /\ pc'[c] = "idle"
            /\ ret'[c] = StartNil
      ]_vars

\* C21 witness: Close has completed and the ingestion goroutine has exited,
\* while the Start call is still blocked because nothing cancelled the context.
C21_Witness ==
    /\ hist.stopped
    /\ ~ctxDone
    /\ ~panicked
    /\ \E c \in Clients : pc[c] = "wait"
    /\ \E k \in DOMAIN procs : procs[k].pc = "exited"

\* ============================================= the lock and the transport

\* C23 (as claimed): the transport calls of Start and of Close are made under
\* the mutex, so no Start is about to open the transport or to read its
\* events while a Close, holding the mutex, has the transport close just
\* ahead of it or just behind it.
C23_TransportUnderMutex ==
    \A c \in Clients : \A d \in Clients :
        ~(/\ pc[c] \in {"open", "read"}
          /\ pc[d] \in {"close_port", "close_done"}
          /\ mutex = d)

\* ===================================================== port resolution

\* C29: with a configured name Start goes on to open exactly that name and
\* the port list is never queried; with no configured name Start queries the
\* list once and either goes on to open its first name, or returns the
\* list error / the no-ports error with nothing opened.  Open is called with
\* the resolved name.
C29_PortResolution ==
    [][/\ \A c \in Clients :
           /\ (pc[c] = "resolve" /\ pc'[c] # "resolve") =>
                IF config.inputPort # ""
                THEN /\ pc'[c] = "open"
                     /\ sel'[c] = config.inputPort
                     /\ hist'.lists = hist.lists
                ELSE /\ hist'.lists = hist.lists + 1
                     /\ \/ /\ pc'[c] = "open"
                           /\ \E l \in PortListings :
                                /\ ~l.err
                                /\ Len(l.ports) > 0
                                /\ sel'[c] = l.ports[1]
                        \/ /\ pc'[c] = "idle"
                           /\ ret'[c] \in {ErrGetPorts, ErrNoPorts}
                           /\ hist'.opens = hist.opens
                           /\ portOpen' = portOpen
                           /\ portName' = portName
           /\ (pc[c] = "open" /\ pc'[c] = "read") =>
                /\ portOpen'
                /\ portName' = sel[c]
       /\ hist'.lists # hist.lists => config.inputPort = ""
       /\ hist'.opens # hist.opens =>
            \E c \in Clients : pc[c] = "open" /\ portName' = sel[c]
      ]_vars

\* C29 witness: no name is configured, the list was queried once and the
\* transport is open under the first listed name.
C29_Witness ==
    /\ config.inputPort = ""
    /\ hist.lists = 1
    /\ hist.opens = 1
    /\ portOpen
    /\ portName = "ALSA MIDI Port 0"

\* ================================================ transport close error

\* C30: the step after the transport close is close(h.done) whether or not
\* the transport close failed, and a Close whose transport close failed
\* returns nil with both channels closed and the handler not running.
C30_PortCloseErrorOnlyLogged ==
    [][\A c \in Clients :
        /\ (pc[c] = "close_port" /\ pc'[c] # "close_port") =>
            /\ pc'[c] = "close_done"
            /\ ret'[c] = ret[c]
            /\ mutex' = c
        /\ (pc[c] = "close_finish" /\ pc'[c] # "close_finish" /\ hist.closeErr) =>
            /\ pc'[c] = "idle"
            /\ ret'[c] = CloseNil
            /\ ~isRunning'
            /\ doneClosed'
            /\ eventChanClosed'
            /\ hist'.stopped
      ]_vars

\* C30 witness: the transport was opened, the one Close made so far had its
\* transport close fail and has returned nil; the channels are closed and the handler is not running.
C30_Witness ==
    /\ hist.closeErr
    /\ hist.opens = 1
    /\ hist.portCloses = 1
    /\ hist.stopped
    /\ ~panicked
    /\ \E c \in Clients : pc[c] = "idle" /\ ret[c] = CloseNil
    /\ \A c \in Clients : pc[c] \notin {"close_port", "close_done",
                                        "close_eventChan", "close_finish"}
    /\ ~isRunning
    /\ doneClosed
    /\ eventChanClosed

\* ================================================ termination on cancel

LiveCalls  == 2  \* Start / Close calls in a behaviour of SpecLive
LiveEvents == 1  \* numbered events delivered in a behaviour of SpecLive
StreamCap  == 1  \* events waiting on a stream of SpecLive

\* The event a transport that never falls silent keeps delivering.
RepeatEvent ==
    [id |-> 0, type |-> "control_change", channel |-> 3, note |-> 0,
     velocity |-> 0, controller |-> 7, value |-> 90, program |-> 0]

\* The transport puts one more event on the stream, at any time and without
\* end, as long as the stream has room.
TransportRepeat(k) ==
    /\ ~panicked
    /\ k \in DOMAIN streams
    /\ Len(streams[k]) < StreamCap
    /\ streams' = [streams EXCEPT ![k] = Append(@, RepeatEvent)]
    /\ UNCHANGED <<config, budget, probe, executors, platform, isRunning, mutex, portOpen, portName, doneClosed,
                   eventChanClosed, panicked, ctxDone, pc, sel, ret,
                   procs, emitted, fanout, handled, hist>>

InitLive ==
    /\ config = [channel |-> -1, actionDelay |-> 100,
                 inputPort |-> "USB MIDI Interface", mappings |-> <<MappingA>>]
    /\ budget = [calls |-> LiveCalls, events |-> LiveEvents, pool |-> EventPool]
    /\ probe = NoProbe
    /\ platform = IdlePlatform
    /\ HandlerInit

NextLive ==
    \/ Next
    \/ \E k \in DOMAIN streams : TransportRepeat(k)

\* Scheduling: a goroutine that can run does run (the blocked receive of
\* Start, the mapping loop and the end of the sleep); the select of
\* processEvents picks among its ready cases at random, so a case that is
\* ready again and again is taken.
FairLive ==
    /\ \A c \in Clients : WF_vars(StartWait(c))
    /\ \A k \in 1..LiveCalls :
        /\ WF_vars(ProcEval(k))
        /\ WF_vars(ProcWake(k))
        /\ SF_vars(ProcCtxDone(k))

SpecLive == InitLive /\ [][NextLive]_vars /\ FairLive

\* C22: once the context is cancelled, every Start blocked in its wait
\* returns and every ingestion goroutine exits, whatever the transport keeps
\* delivering.
C22_CancelTerminates ==
    /\ \A c \in Clients :
        (ctxDone /\ pc[c] = "wait") ~> (pc[c] # "wait")
    /\ \A k \in 1..LiveCalls :
        (ctxDone /\ k \in DOMAIN procs)
            ~> (k \in DOMAIN procs /\ procs[k].pc = "exited")

\* C22 witness: after the cancellation Start has returned nil and the
\* ingestion goroutine has exited while an event is waiting on its stream.
C22_Witness ==
    /\ ctxDone
    /\ ~doneClosed
    /\ \E c \in Clients : pc[c] = "idle" /\ ret[c] = StartNil
    /\ \E k \in DOMAIN procs : procs[k].pc = "exited" /\ streams[k] # <<>>

\* ======================================================= actions.Manager

\* An error is the text fmt.Errorf builds: the pieces of the format string
\* and the formatted arguments, in order.  No error is the empty text.
NilError == <<>>

\* Does the text contain the argument t as one of its pieces.
Contains(msg, t) == \E i \in DOMAIN msg : msg[i] = t

\* Manager.Execute line 91
ErrNoExecutor(t) == <<"kein Executor fuer Aktion-Typ '", t, "' gefunden">>

\* Manager.Execute line 97: the executor's error wrapped with the action type.
ErrExecuteFailed(t, cause) ==
    <<"fehler beim Ausfuehren der Aktion '", t, "': ">> \o cause

\* Manager.ValidateAction line 128
ErrInvalidType(t) == <<"ungueltiger Aktion-Typ: ", t>>

\* What an executor's Execute or Validate returns: nil or an error of its own.
ExecutorOutcomes == {NilError, <<"executor error">>}

\* Executors handed to registerExecutor after construction: the shipped
\* volume executor again, another executor named "volume" that is no
\* ActionValidator, and two executors under a new name.
ExecutorPool ==
    { [name |-> "volume", impl |-> "volume",          validates |-> TRUE],
      [name |-> "volume", impl |-> "custom volume",   validates |-> FALSE],
      [name |-> "custom", impl |-> "custom A",        validates |-> FALSE],
      [name |-> "custom", impl |-> "custom B",        validates |-> TRUE] }

\* Actions handed to Execute / ValidateAction in SpecRegistry.
RegistryActions ==
    { [type |-> t, direction |-> "up", percent |-> 5] :
        t \in RegisteredTypes \cup {"custom", "unknown_type", ""} }

\* ValidateAction that accepts an action type nobody registered.
ManagerValidateActionLenient(execs, action, outcome) ==
    IF action.type \notin DOMAIN execs
    THEN [err |-> NilError, invoked |-> <<>>]
    ELSE IF execs[action.type].validates
    THEN [err |-> outcome,
          invoked |-> << [impl |-> execs[action.type].impl, method |-> "Validate"] >>]
    ELSE [err |-> NilError, invoked |-> <<>>]

\* ValidateAction that demands the validation capability.
ManagerValidateActionStrict(execs, action, outcome) ==
    IF action.type \notin DOMAIN execs
    THEN [err |-> ErrInvalidType(action.type), invoked |-> <<>>]
    ELSE IF execs[action.type].validates
    THEN [err |-> outcome,
          invoked |-> << [impl |-> execs[action.type].impl, method |-> "Validate"] >>]
    ELSE [err |-> ErrInvalidType(action.type), invoked |-> <<>>]

\* Manager.Execute: the error returned and the executor methods invoked, given
\* what the executor's Execute returns.
ManagerExecute(execs, action, outcome) ==
    IF action.type \notin DOMAIN execs
    THEN [err |-> ErrNoExecutor(action.type), invoked |-> <<>>]
    ELSE [err |-> IF outcome # NilError
                  THEN ErrExecuteFailed(action.type, outcome)
                  ELSE NilError,
          invoked |-> << [impl |-> execs[action.type].impl, method |-> "Execute"] >>]

\* Manager.ValidateAction, given what the executor's Validate returns.
ManagerValidateAction(execs, action, outcome) ==
    IF action.type \notin DOMAIN execs
    THEN [err |-> ErrInvalidType(action.type), invoked |-> <<>>]
    ELSE IF execs[action.type].validates
    THEN [err |-> outcome,
          invoked |-> << [impl |-> execs[action.type].impl, method |-> "Validate"] >>]
    ELSE [err |-> NilError, invoked |-> <<>>]

\* The variables of the handler, which the Manager never touches.
handlerVars ==
    <<isRunning, mutex, portOpen, portName, doneClosed, eventChanClosed,
      panicked, ctxDone, pc, sel, ret, procs, streams, emitted, fanout,
      handled, hist>>

\* The result of a lookup in m.executors that found nothing.
NoExecutor == [exists |-> FALSE, executor |-> [name |-> "", impl |-> "", validates |-> FALSE]]

\* The registry as one call saw it when it held the read lock: the executor
\* it found under the action's type, or nothing.
Snapshot(found, type) ==
    [n \in (IF found.exists THEN {type} ELSE {}) |-> found.executor]

\* registerExecutor that keeps the executor already registered under a name.
MgrRegisterKeepFirst(e) ==
    /\ executors' = IF e.name \in DOMAIN executors THEN executors
                    ELSE [n \in DOMAIN executors \cup {e.name} |->
                            IF n = e.name THEN e ELSE executors[n]]
    /\ probe' = [st |-> "done", step |-> "register", caller |-> 0,
                 op |-> "registerExecutor", executor |-> e,
                 pending |-> probe.pending]
    /\ UNCHANGED <<config, budget, platform, handlerVars>>

\* Manager.registerExecutor: m.executors[executor.GetName()] = executor,
\* under the write lock.
MgrRegister(e) ==
    /\ executors' = [n \in DOMAIN executors \cup {e.name} |->
                        IF n = e.name THEN e ELSE executors[n]]
    /\ probe' = [st |-> "done", step |-> "register", caller |-> 0,
                 op |-> "registerExecutor", executor |-> e,
                 pending |-> probe.pending]
    /\ UNCHANGED <<config, budget, platform, handlerVars>>

\* The lookup of a call under the read lock, which is released at once.
MgrLookup(c, op, action) ==
    /\ probe.pending[c].pc = "idle"
    /\ probe' = [probe EXCEPT
                    !.step = "lookup",
                    !.caller = c,
                    !.pending[c] =
                        [pc |-> "looked", op |-> op, action |-> action,
                         found |-> IF action.type \in DOMAIN executors
                                   THEN [exists |-> TRUE,
                                         executor |-> executors[action.type]]
                                   ELSE NoExecutor]]
    /\ UNCHANGED <<config, budget, executors, platform, handlerVars>>

\* The call c has returned with result r.
MgrDone(c, outcome, r) ==
    probe' = [st |-> "done", step |-> "return", caller |-> c,
              op |-> probe.pending[c].op, action |-> probe.pending[c].action,
              found |-> probe.pending[c].found, outcome |-> outcome,
              err |-> r.err, invoked |-> r.invoked,
              pending |-> [probe.pending EXCEPT ![c] = [pc |-> "idle"]]]

\* After the lookup: the call returns when it has no executor method to
\* invoke, and otherwise enters the executor.
MgrProceed(c, r) ==
    IF r.invoked = <<>> THEN MgrDone(c, NilError, r)
    ELSE probe' = [probe EXCEPT !.step = "invoke", !.caller = c,
                                !.pending[c].pc = "running"]

\* Manager.Execute lines 86-88: m.executors[action.Type] under RLock.
MgrExecuteLookup(c, action) == MgrLookup(c, "Execute", action)

\* Manager.Execute lines 90-96: the error for a missing executor, or the
\* call executor.Execute(action) on the executor found by the lookup.
MgrExecuteInvoke(c) ==
    /\ probe.pending[c].pc = "looked"
    /\ probe.pending[c].op = "Execute"
    /\ LET p == probe.pending[c]
       IN  MgrProceed(c, ManagerExecute(Snapshot(p.found, p.action.type),
                                        p.action, NilError))
    /\ UNCHANGED <<config, budget, executors, platform, handlerVars>>

\* Manager.Execute lines 96-101: the executor has returned outcome.
MgrExecuteReturn(c, outcome) ==
    /\ probe.pending[c].pc = "running"
    /\ probe.pending[c].op = "Execute"
    /\ LET p == probe.pending[c]
       IN  MgrDone(c, outcome,
                   ManagerExecute(Snapshot(p.found, p.action.type),
                                  p.action, outcome))
    /\ UNCHANGED <<config, budget, executors, platform, handlerVars>>

\* Manager.ValidateAction line 126: GetExecutor(action.Type).
MgrValidateLookup(c, action) == MgrLookup(c, "ValidateAction", action)

\* Manager.ValidateAction lines 127-136: the error for a missing executor,
\* nil for an executor that is no ActionValidator, or the call
\* validator.Validate(action) on the executor found by the lookup.
MgrValidateInvoke(c) ==
    /\ probe.pending[c].pc = "looked"
    /\ probe.pending[c].op = "ValidateAction"
    /\ LET p == probe.pending[c]
       IN  MgrProceed(c, ManagerValidateAction(Snapshot(p.found, p.action.type),
                                               p.action, NilError))
    /\ UNCHANGED <<config, budget, executors, platform, handlerVars>>

\* Manager.ValidateAction line 133: Validate has returned outcome.
MgrValidateReturn(c, outcome) ==
    /\ probe.pending[c].pc = "running"
    /\ probe.pending[c].op = "ValidateAction"
    /\ LET p == probe.pending[c]
       IN  MgrDone(c, outcome,
                   ManagerValidateAction(Snapshot(p.found, p.action.type),
                                         p.action, outcome))
    /\ UNCHANGED <<config, budget, executors, platform, handlerVars>>

\* A Manager as NewManager builds it, inside a handler that is never started;
\* the goroutines of Clients call it.
InitRegistry ==
    /\ config = [channel |-> -1, actionDelay |-> 0, inputPort |-> "",
                 mappings |-> <<>>]
    /\ budget = [calls |-> 0, events |-> 0, pool |-> {}]
    /\ probe = [st |-> "none", step |-> "none", caller |-> 0,
                pending |-> [c \in Clients |-> [pc |-> "idle"]]]
    /\ platform = IdlePlatform
    /\ HandlerInit

NextRegistry ==
    \/ \E e \in ExecutorPool : MgrRegister(e)
    \/ \E c \in Clients, a \in RegistryActions : MgrExecuteLookup(c, a)
    \/ \E c \in Clients : MgrExecuteInvoke(c)
    \/ \E c \in Clients, o \in ExecutorOutcomes : MgrExecuteReturn(c, o)
    \/ \E c \in Clients, a \in RegistryActions : MgrValidateLookup(c, a)
    \/ \E c \in Clients : MgrValidateInvoke(c)
    \/ \E c \in Clients, o \in ExecutorOutcomes : MgrValidateReturn(c, o)

SpecRegistry == InitRegistry /\ [][NextRegistry]_vars

\* A Manager call on an action has returned.
MgrCalled(op) == probe.st = "done" /\ probe.op = op

\* C24: for an action whose type had no registered executor when the call
\* looked it up, Execute and ValidateAction return an error whose text
\* contains the action type, and no executor method is invoked.
C24_UnregisteredTypeIsAnError ==
    ((MgrCalled("Execute") \/ MgrCalled("ValidateAction"))
        /\ ~probe.found.exists)
    => /\ probe.err # NilError
       /\ Contains(probe.err, probe.action.type)
       /\ probe.invoked = <<>>

\* C24 witness: ValidateAction was called for the type "unknown_type", which
\* has no executor, and returned an error naming it.
C24_Witness ==
    /\ MgrCalled("ValidateAction")
    /\ probe.action.type = "unknown_type"
    /\ "unknown_type" \notin DOMAIN executors
    /\ ~probe.found.exists
    /\ probe.err = ErrInvalidType("unknown_type")

\* C25: for a type that was registered when the call looked it up,
\* ValidateAction returns exactly what the executor's Validate returns when
\* the executor is an ActionValidator, and nil without invoking anything when
\* it is not; Execute is never invoked.
C25_ValidateDelegatesWhenCapable ==
    (MgrCalled("ValidateAction") /\ probe.found.exists)
    => LET ex == probe.found.executor
       IN  /\ ex.validates =>
                /\ probe.err = probe.outcome
                /\ probe.invoked = << [impl |-> ex.impl, method |-> "Validate"] >>
           /\ ~ex.validates =>
                /\ probe.err = NilError
                /\ probe.invoked = <<>>
           /\ \A i \in DOMAIN probe.invoked : probe.invoked[i].method # "Execute"

\* C25 witness: ValidateAction on an action whose executor is no
\* ActionValidator returned nil.
C25_Witness ==
    /\ MgrCalled("ValidateAction")
    /\ probe.action.type = "custom"
    /\ probe.found.exists
    /\ probe.found.executor = executors["custom"]
    /\ ~executors["custom"].validates
    /\ probe.err = NilError

\* C26: a registration puts its executor under its name, replacing whatever
\* was there and leaving every other name as it was; no other step changes
\* the registry; the lookup of Execute finds the executor then under the
\* name, i.e. the one registered last, and Execute invokes that executor,
\* returns nil when the executor does, and otherwise the executor's error
\* wrapped in a text containing the type.
C26_LastRegistrationWins ==
    [][/\ probe'.step = "register" =>
            LET e == probe'.executor
            IN  /\ DOMAIN executors' = DOMAIN executors \cup {e.name}
                /\ executors'[e.name] = e
                /\ \A n \in DOMAIN executors \ {e.name} :
                        executors'[n] = executors[n]
       /\ probe'.step # "register" => executors' = executors
       /\ (probe'.step = "lookup"
             /\ probe'.pending[probe'.caller].action.type \in DOMAIN executors) =>
            LET p == probe'.pending[probe'.caller]
            IN  /\ p.found.exists
                /\ p.found.executor = executors[p.action.type]
       /\ (probe'.step = "return" /\ probe'.op = "Execute"
             /\ probe'.found.exists) =>
            LET t == probe'.action.type
            IN  /\ probe'.invoked =
                     << [impl |-> probe'.found.executor.impl,
                         method |-> "Execute"] >>
                /\ probe'.outcome = NilError => probe'.err = NilError
                /\ probe'.outcome # NilError =>
                     /\ probe'.err = ErrExecuteFailed(t, probe'.outcome)
                     /\ Contains(probe'.err, t)
      ]_vars

\* C26 witness: "volume" was registered a second time, with another
\* executor; an Execute on a volume action that began afterwards invoked that
\* executor and returned its error wrapped, while the other shipped executors
\* are still registered.
C26_Witness ==
    /\ MgrCalled("Execute")
    /\ probe.step = "return"
    /\ probe.action.type = "volume"
    /\ executors["volume"].impl = "custom volume"
    /\ probe.found.executor = executors["volume"]
    /\ probe.invoked = << [impl |-> "custom volume", method |-> "Execute"] >>
    /\ probe.err = ErrExecuteFailed("volume", <<"executor error">>)
    /\ executors["app_start"] = ShippedExecutors["app_start"]

\* ======================================================== VolumeExecutor

\* Values of the parameter bag (map[string]interface{}): a Go int, a float64
\* (in tenths), a string (its characters) or a bool.
IntV(n)     == [t |-> "int", n |-> n]
FloatV(x)   == [t |-> "float64", tenths |-> x]
StrV(chars) == [t |-> "string", chars |-> chars]
BoolV(b)    == [t |-> "bool", b |-> b]
Absent      == [t |-> "absent"]

\* int(v) for a float64 v: truncation toward zero.
TruncTenths(x) == IF x >= 0 THEN x \div 10 ELSE -((-x) \div 10)

DigitValue ==
    [c \in {"0", "1", "2", "3", "4", "5", "6", "7", "8", "9"} |->
        CASE c = "0" -> 0 [] c = "1" -> 1 [] c = "2" -> 2 [] c = "3" -> 3
          [] c = "4" -> 4 [] c = "5" -> 5 [] c = "6" -> 6 [] c = "7" -> 7
          [] c = "8" -> 8 [] c = "9" -> 9]

RECURSIVE DigitsValue(_, _)
\* The number written by the digits, continuing from the value acc.
DigitsValue(chars, acc) ==
    IF chars = <<>> THEN acc
    ELSE DigitsValue(Tail(chars), 10 * acc + DigitValue[Head(chars)])

\* strconv.Atoi: an optional sign, then one or more digits and nothing else.
Atoi(chars) ==
    LET signed == chars # <<>> /\ Head(chars) \in {"+", "-"}
        digits == IF signed THEN Tail(chars) ELSE chars
    IN  IF digits = <<>> \/ \E i \in DOMAIN digits : digits[i] \notin DOMAIN DigitValue
        THEN [ok |-> FALSE, n |-> 0]
        ELSE [ok |-> TRUE,
              n |-> IF signed /\ Head(chars) = "-"
                    THEN -DigitsValue(digits, 0) ELSE DigitsValue(digits, 0)]

\* Direction keywords
TextUp       == <<"u", "p">>
TextDown     == <<"d", "o", "w", "n">>
TextIncrease == <<"i", "n", "c", "r", "e", "a", "s", "e">>
TextDecrease == <<"d", "e", "c", "r", "e", "a", "s", "e">>
TextSet      == <<"s", "e", "t">>
TextMute     == <<"m", "u", "t", "e">>
TextUnmute   == <<"u", "n", "m", "u", "t", "e">>

\* Errors of VolumeExecutor.Execute
ErrVolumeNeedsDirection == <<"volume-Aktion benoetigt 'direction' Parameter">>
ErrDirectionNotString   == <<"'direction' Parameter muss ein String sein">>
ErrBadVolumeParam(v)    == <<"ungueltiger 'volume' Parameter: ", v>>
ErrVolumeRange(n)       == <<"volume muss zwischen 0 und 100 liegen, got: ", n>>
ErrSetNeedsVolume       == <<"'set' direction benoetigt 'volume' Parameter">>
ErrBadDirection(d) ==
    <<"ungueltige direction: ", d, " (erwartet: up, down, set, mute, unmute)">>

\* The controllers of the repository keep no level: GetVolume reports the
\* platform's level vol, which is 50 on both platforms, and SetVolume returns
\* nil without storing anything, so the level after any call is vol.

\* VolumeController.SetVolume(v).
CtlSetVolume(vol, v) ==
    [err |-> NilError, calls |-> << [op |-> "SetVolume", arg |-> v] >>,
     volume |-> vol]

\* VolumeController.IncreaseVolume(percent): GetVolume, clamp at 100, SetVolume.
CtlIncreaseVolume(vol, percent) ==
    LET newVolume == IF vol + percent > 100 THEN 100 ELSE vol + percent
        set == CtlSetVolume(vol, newVolume)
    IN  [set EXCEPT !.calls = << [op |-> "IncreaseVolume", arg |-> percent] >> \o @]

\* VolumeController.DecreaseVolume(percent): GetVolume, clamp at 0, SetVolume.
CtlDecreaseVolume(vol, percent) ==
    LET newVolume == IF vol - percent < 0 THEN 0 ELSE vol - percent
        set == CtlSetVolume(vol, newVolume)
    IN  [set EXCEPT !.calls = << [op |-> "DecreaseVolume", arg |-> percent] >> \o @]

\* Execute returns an error before any controller call.
VolumeRejected(vol, err) == [err |-> err, calls |-> <<>>, volume |-> vol]

\* Lines 61-73: the percent parameter, 5 when absent or not convertible.
VolumePercent(params) ==
    IF "percent" \notin DOMAIN params THEN 5
    ELSE LET v == params["percent"]
         IN  IF v.t = "int" THEN v.n
             ELSE IF v.t = "float64" THEN TruncTenths(v.tenths)
             ELSE IF v.t = "string" /\ Atoi(v.chars).ok THEN Atoi(v.chars).n
             ELSE 5

\* Lines 88-111: direction "set".
VolumeSet(params, vol) ==
    IF "volume" \notin DOMAIN params THEN VolumeRejected(vol, ErrSetNeedsVolume)
    ELSE LET v == params["volume"]
             parsed == IF v.t = "int" THEN [ok |-> TRUE, n |-> v.n]
                       ELSE IF v.t = "float64"
                       THEN [ok |-> TRUE, n |-> TruncTenths(v.tenths)]
                       ELSE IF v.t = "string" THEN Atoi(v.chars)
                       ELSE [ok |-> FALSE, n |-> 0]
         IN  IF ~parsed.ok THEN VolumeRejected(vol, ErrBadVolumeParam(v))
             ELSE IF parsed.n < 0 \/ parsed.n > 100
             THEN VolumeRejected(vol, ErrVolumeRange(parsed.n))
             ELSE CtlSetVolume(vol, parsed.n)

\* VolumeExecutor.Execute on a parameter bag, with the platform at level vol:
\* the error returned, the controller calls made and the level afterwards.
VolumeExecute(params, vol) ==
    IF "direction" \notin DOMAIN params
    THEN VolumeRejected(vol, ErrVolumeNeedsDirection)
    ELSE IF params["direction"].t # "string"
    THEN VolumeRejected(vol, ErrDirectionNotString)
    ELSE LET d == params["direction"].chars
             percent == VolumePercent(params)
         IN  IF d \in {TextUp, TextIncrease} THEN CtlIncreaseVolume(vol, percent)
             ELSE IF d \in {TextDown, TextDecrease} THEN CtlDecreaseVolume(vol, percent)
             ELSE IF d = TextSet THEN VolumeSet(params, vol)
             ELSE IF d = TextMute THEN CtlSetVolume(vol, 0)
             ELSE IF d = TextUnmute THEN CtlSetVolume(vol, 50)
             ELSE VolumeRejected(vol, ErrBadDirection(d))

\* Parameter bags of volume actions: each key absent or holding one of a few
\* values of the types the executor distinguishes.
VolumeDirections ==
    { Absent, IntV(1), StrV(TextUp), StrV(TextDown), StrV(TextIncrease),
      StrV(TextDecrease), StrV(TextSet), StrV(TextMute), StrV(TextUnmute),
      StrV(<<"l", "e", "f", "t">>) }

VolumePercents ==
    { Absent, IntV(5), IntV(0), IntV(500), IntV(-60), FloatV(125),
      StrV(<<"1", "0">>), StrV(<<"x">>), BoolV(TRUE) }

VolumeLevels ==
    { Absent, IntV(30), IntV(101), IntV(-1), FloatV(995),
      StrV(<<"7", "0">>), StrV(<<"a", "b", "c">>), BoolV(TRUE) }

ParamBag(d, p, v) ==
    LET all == [direction |-> d, percent |-> p, volume |-> v]
    IN  [k \in {x \in {"direction", "percent", "volume"} : all[x] # Absent}
            |-> all[k]]

VolumeBags ==
    { ParamBag(d, p, v) :
        d \in VolumeDirections, p \in VolumePercents, v \in VolumeLevels }

\* A volume executor about to execute one action.
InitVolume ==
    /\ config = [channel |-> -1, actionDelay |-> 0, inputPort |-> "",
                 mappings |-> <<>>]
    /\ budget = [calls |-> 0, events |-> 0, pool |-> {}]
    /\ probe \in { [st |-> "input", op |-> "Execute",
                    action |-> [type |-> "volume", parameters |-> b],
                    err |-> NilError, calls |-> <<>>] : b \in VolumeBags }
    /\ platform = IdlePlatform
    /\ HandlerInit

\* One call VolumeExecutor.Execute(action).
VolumeApply ==
    /\ probe.st = "input"
    /\ probe.op = "Execute"
    /\ LET r == VolumeExecute(probe.action.parameters, platform.volume)
       IN  /\ probe' = [probe EXCEPT !.st = "done", !.err = r.err,
                                     !.calls = r.calls]
           /\ platform' = [platform EXCEPT !.volume = r.volume]
    /\ UNCHANGED <<config, budget, executors, handlerVars>>

NextVolume == VolumeApply

SpecVolume == InitVolume /\ [][NextVolume]_vars

\* C27 (as claimed): Execute on a volume action without 'direction' acts as
\* direction 'up': it returns no error and increases the volume by the
\* percent given, by 5 when 'percent' is absent as well.
C27_DirectionDefaultsToUp ==
    (probe.st = "done" /\ "direction" \notin DOMAIN probe.action.parameters)
    => /\ probe.err = NilError
       /\ probe.calls # <<>>
       /\ probe.calls[1] = [op |-> "IncreaseVolume",
                            arg |-> VolumePercent(probe.action.parameters)]

\* C28 (as claimed, for the volume executor): Execute returns an error and
\* makes no controller call whenever the percent used for up / down, or the
\* volume used for set, lies outside 0..100.
C28_OutOfRangeIsRejected ==
    (/\ probe.st = "done"
     /\ "direction" \in DOMAIN probe.action.parameters
     /\ probe.action.parameters["direction"].t = "string")
    => LET p == probe.action.parameters
           d == p["direction"].chars
           percent == VolumePercent(p)
       IN  /\ (/\ d \in {TextUp, TextIncrease, TextDown, TextDecrease}
                /\ "percent" \in DOMAIN p
                /\ (percent < 0 \/ percent > 100))
               => (probe.err # NilError /\ probe.calls = <<>>)
           /\ (/\ d = TextSet
                /\ "volume" \in DOMAIN p
                /\ p["volume"].t = "int"
                /\ (p["volume"].n < 0 \/ p["volume"].n > 100))
               => (probe.err # NilError /\ probe.calls = <<>>)

\* =============================================== VolumeExecutor.Validate

\* Lines 164-183: the percent parameter when present.
VolumeValidatePercent(params) ==
    IF "percent" \notin DOMAIN params THEN NilError
    ELSE LET v == params["percent"]
             parsed == IF v.t = "int" THEN [ok |-> TRUE, n |-> v.n]
                       ELSE IF v.t = "float64"
                       THEN [ok |-> TRUE, n |-> TruncTenths(v.tenths)]
                       ELSE IF v.t = "string" THEN Atoi(v.chars)
                       ELSE [ok |-> FALSE, n |-> 0]
         IN  IF ~parsed.ok THEN <<"ungueltiger 'percent' Parameter: ", v>>
             ELSE IF parsed.n <= 0 \/ parsed.n > 100 THEN <<"percent muss zwischen 1 und 100 liegen, got: ", parsed.n>>
             ELSE NilError

\* VolumeExecutor.Validate on a parameter bag: the error returned.
VolumeValidate(params) ==
    IF "direction" \notin DOMAIN params THEN ErrVolumeNeedsDirection
    ELSE IF params["direction"].t # "string" THEN ErrDirectionNotString
    ELSE LET d == params["direction"].chars
         IN  IF d \notin {TextUp, TextDown, TextIncrease, TextDecrease,
                          TextSet, TextMute, TextUnmute}
             THEN <<"ungueltige direction: ", d>>
             ELSE IF d = TextSet /\ "volume" \notin DOMAIN params
             THEN ErrSetNeedsVolume
             ELSE VolumeValidatePercent(params)

\* A volume executor about to validate and then execute one action.
InitVolumeValidate ==
    /\ config = [channel |-> -1, actionDelay |-> 0, inputPort |-> "",
                 mappings |-> <<>>]
    /\ budget = [calls |-> 0, events |-> 0, pool |-> {}]
    /\ probe \in { [st |-> "input", op |-> "Validate",
                    action |-> [type |-> "volume", parameters |-> b],
                    verr |-> NilError, err |-> NilError, calls |-> <<>>] :
                   b \in VolumeBags }
    /\ platform = IdlePlatform
    /\ HandlerInit

\* One call VolumeExecutor.Validate(action); Execute is called next.
VolumeValidateApply ==
    /\ probe.st = "input"
    /\ probe.op = "Validate"
    /\ probe' = [probe EXCEPT !.op = "Execute",
                              !.verr = VolumeValidate(probe.action.parameters)]
    /\ UNCHANGED <<config, budget, executors, platform, handlerVars>>

NextVolumeValidate == VolumeValidateApply \/ VolumeApply

SpecVolumeValidate == InitVolumeValidate /\ [][NextVolumeValidate]_vars

\* C34 (as claimed): when Validate returned no error for a volume action,
\* Execute of the same action does not fail on its parameters: it returns no
\* error and has called the platform controller.
C34_ValidatedActionExecutes ==
    (/\ probe.st = "done"
     /\ "verr" \in DOMAIN probe
     /\ probe.verr = NilError)
    => (probe.err = NilError /\ probe.calls # <<>>)

\* C35 (as claimed): every level handed to the controller's SetVolume lies in
\* 0..100, whatever action Execute accepted and whatever the level before.
C35_SetVolumeWithinRange ==
    probe.st = "done"
    => \A i \in DOMAIN probe.calls :
          probe.calls[i].op = "SetVolume" => probe.calls[i].arg \in 0..100

\* ================================================ the port after Close

\* C32 (as claimed): once a Close has returned, the flag is clear, the last
\* transport close succeeded and every call has made its steps, the transport
\* is not open.
C32_PortClosedAfterClose ==
    (/\ hist.stopped
     /\ ~isRunning
     /\ ~hist.closeErr
     /\ ~panicked
     /\ \A c \in Clients : pc[c] \in {"idle", "wait"})
    => ~portOpen

\* ================================================== rejected second Start

\* C33: a Start that is refused because the flag is set returns the
\* already-running error and leaves the flag, the transport, the channels,
\* the ingestion goroutines, their streams and the fan-out tasks as they were;
\* it lists no ports, opens nothing and closes nothing.
C33_RejectedStartChangesNothing ==
    [][(hist'.starts = hist.starts + 1 /\ hist'.passed = hist.passed) =>
        /\ isRunning /\ isRunning'
        /\ \E c \in Clients :
            /\ pc[c] = "idle" /\ pc'[c] = "idle"
            /\ ret'[c] = ErrAlreadyRunning
        /\ UNCHANGED <<portOpen, portName, doneClosed, eventChanClosed,
                       panicked, ctxDone, mutex, procs, streams, emitted,
                       fanout, handled, executors, platform>>
        /\ hist'.opens = hist.opens
        /\ hist'.lists = hist.lists
        /\ hist'.portCloses = hist.portCloses
        /\ hist'.closes = hist.closes
      ]_vars

\* C33 witness: with the transport open and an ingestion goroutine alive, a
\* second Start has been refused; the transport was opened once.
C33_Witness ==
    /\ \E c \in Clients : pc[c] = "idle" /\ ret[c] = ErrAlreadyRunning
    /\ isRunning
    /\ portOpen
    /\ hist.opens = 1
    /\ hist.starts = 2
    /\ hist.closes = 0
    /\ \E k \in DOMAIN procs : procs[k].pc # "exited"

\* ============================================================ config.Load

MaxMappings == 2  \* mappings in a configuration file of SpecLoad

\* json.Decoder.Decode into a zero Config: a key the file leaves out keeps
\* the zero value of its field.  A file holds each key as a typed value (a
\* JSON number written without a fraction as an int) or leaves it Absent.  A
\* number decoded into an interface{} becomes a float64.
Decode(file) ==
    [channel     |-> IF file.channel = Absent THEN 0 ELSE file.channel.n,
     timeout     |-> IF file.timeout = Absent THEN 0 ELSE file.timeout.n,
     logLevel    |-> IF file.logLevel = Absent THEN "" ELSE file.logLevel.chars,
     actionDelay |-> IF file.actionDelay = Absent THEN 0 ELSE file.actionDelay.n,
     inputPort   |-> "",
     mappings    |-> [i \in DOMAIN file.mappings |->
                        [name    |-> file.mappings[i].name,
                         event   |-> file.mappings[i].event,
                         action  |->
                            [type |-> file.mappings[i].action.type,
                             parameters |->
                                [k \in DOMAIN file.mappings[i].action.parameters |->
                                    LET v == file.mappings[i].action.parameters[k]
                                    IN  IF v.t = "int" THEN FloatV(10 * v.n) ELSE v]],
                         enabled |-> IF file.mappings[i].enabled = Absent
                                     THEN FALSE
                                     ELSE file.mappings[i].enabled.b]]]

\* setDefaults: zero fields get their defaults, every mapping is enabled.
setDefaults(cfg) ==
    [cfg EXCEPT
        !.channel     = IF cfg.channel = 0 THEN -1 ELSE cfg.channel,
        !.timeout     = IF cfg.timeout = 0 THEN 30 ELSE cfg.timeout,
        !.logLevel    = IF cfg.logLevel = "" THEN "info" ELSE cfg.logLevel,
        !.actionDelay = IF cfg.actionDelay = 0 THEN 100 ELSE cfg.actionDelay,
        !.mappings    = [i \in DOMAIN cfg.mappings |->
                            IF ~cfg.mappings[i].enabled
                            THEN [cfg.mappings[i] EXCEPT !.enabled = TRUE]
                            ELSE cfg.mappings[i]]]

validateMIDIEvent(event) ==
    IF event.type \in {"note_on", "note_off"} THEN
        IF event.note < 0 \/ event.note > 127
        THEN <<"ungueltige MIDI-Note: ", event.note>>
        ELSE IF event.velocity < 0 \/ event.velocity > 127
        THEN <<"ungueltige Velocity: ", event.velocity>>
        ELSE NilError
    ELSE IF event.type = "control_change" THEN
        IF event.controller < 0 \/ event.controller > 127
        THEN <<"ungueltiger Controller: ", event.controller>>
        ELSE IF event.value < 0 \/ event.value > 127
        THEN <<"ungueltiger Controller-Wert: ", event.value>>
        ELSE NilError
    ELSE IF event.type = "program_change" THEN
        IF event.program < 0 \/ event.program > 127
        THEN <<"ungueltiges Program: ", event.program>>
        ELSE NilError
    ELSE <<"ungueltiger Event-Typ: ", event.type>>

\* validateAction: each known type needs its one parameter to be present.
validateAction(action) ==
    LET needs(key) == IF key \notin DOMAIN action.parameters
                      THEN <<action.type, "-Aktion benoetigt Parameter ", key>>
                      ELSE NilError
    IN  IF action.type = "volume" THEN needs("direction")
        ELSE IF action.type = "app_start" THEN needs("path")
        ELSE IF action.type = "key_combination" THEN needs("keys")
        ELSE IF action.type = "audio_source" THEN needs("source")
        ELSE ErrInvalidType(action.type)

validateMapping(mapping) ==
    IF validateMIDIEvent(mapping.event) # NilError
    THEN <<"ungueltiges MIDI-Event: ">> \o validateMIDIEvent(mapping.event)
    ELSE IF validateAction(mapping.action) # NilError
    THEN <<"ungueltige Aktion: ">> \o validateAction(mapping.action)
    ELSE NilError

\* validate: the channel, then the mappings in order up to the first error.
validate(cfg) ==
    IF cfg.channel < -1 \/ cfg.channel > 15
    THEN <<"ungueltiger MIDI-Kanal: ", cfg.channel>>
    ELSE LET bad == {i \in DOMAIN cfg.mappings :
                        validateMapping(cfg.mappings[i]) # NilError}
         IN  IF bad = {} THEN NilError
             ELSE LET i == CHOOSE j \in bad : \A k \in bad : j <= k
                  IN  <<"ungueltiges Mapping ", i - 1, cfg.mappings[i].name>>
                      \o validateMapping(cfg.mappings[i])

\* Load: the error and the configuration returned, which is nil when there is
\* an error.  The path may have no absolute form, the file may be missing,
\* and its text may be no JSON.
Load(file) ==
    IF file.state = "no path"
    THEN [err |-> <<"ungueltiger Konfigurationspfad: ", "abs">>, config |-> [nil |-> TRUE]]
    ELSE IF file.state = "missing"
    THEN [err |-> <<"konnte Konfigurationsdatei nicht oeffnen: ", "open">>,
          config |-> [nil |-> TRUE]]
    ELSE IF file.state = "malformed"
    THEN [err |-> <<"fehler beim Parsen der Konfigurationsdatei: ", "json">>,
          config |-> [nil |-> TRUE]]
    ELSE LET cfg == setDefaults(Decode(file))
         IN  IF validate(cfg) # NilError
             THEN [err |-> <<"ungueltige Konfiguration: ">> \o validate(cfg),
                   config |-> [nil |-> TRUE]]
             ELSE [err |-> NilError, config |-> cfg]

\* Contents of configuration files.

\* Actions of the files; the last one is the action of the mapping 'Switch
\* Audio Source' of the shipped config.json.
FileActions ==
    { [type |-> "volume", parameters |-> ParamBag(StrV(TextUp), Absent, Absent)],
      [type |-> "volume", parameters |-> ParamBag(Absent, IntV(5), Absent)],
      [type |-> "volume", parameters |-> ParamBag(StrV(TextDown), IntV(5), Absent)],
      [type |-> "audio_source",
       parameters |-> [k \in {"type"} |-> StrV(<<"c", "y", "c", "l", "e">>)]] }

FileMappings ==
    { [name |-> "M", event |-> e, action |-> a, enabled |-> en] :
        e \in { FilterNote60,
                [FilterNote60 EXCEPT !.note = 128],
                [type |-> "program_change", note |-> 0, velocity |-> 0,
                 controller |-> 0, value |-> 0, program |-> 1] },
        a \in FileActions, en \in {Absent, BoolV(TRUE), BoolV(FALSE)} }

RECURSIVE FileMappingLists(_)
FileMappingLists(n) ==
    IF n = 0 THEN {<<>>}
    ELSE FileMappingLists(n - 1) \cup
         { Append(l, m) : l \in {x \in FileMappingLists(n - 1) : Len(x) = n - 1},
                          m \in FileMappings }

ConfigFiles ==
    { [state |-> st, channel |-> Absent, timeout |-> Absent, logLevel |-> Absent,
       actionDelay |-> Absent, mappings |-> <<>>] :
        st \in {"no path", "missing", "malformed"} }
    \cup
    { [state |-> "ok", channel |-> c, timeout |-> Absent, logLevel |-> Absent,
       actionDelay |-> d, mappings |-> l] :
        c \in {Absent, IntV(-2), IntV(-1), IntV(0), IntV(1), IntV(15), IntV(16)},
        d \in {Absent, IntV(0), IntV(50)},
        l \in FileMappingLists(MaxMappings) }

\* A configuration file about to be loaded.
InitLoad ==
    /\ config = [channel |-> -1, actionDelay |-> 0, inputPort |-> "",
                 mappings |-> <<>>]
    /\ budget = [calls |-> 0, events |-> 0, pool |-> {}]
    /\ probe \in { [st |-> "input", op |-> "Load", file |-> f, err |-> NilError] :
                   f \in ConfigFiles }
    /\ platform = IdlePlatform
    /\ HandlerInit

\* One call config.Load(path): on success its result is the configuration.
LoadApply ==
    /\ probe.st = "input"
    /\ probe.op = "Load"
    /\ LET r == Load(probe.file)
       IN  /\ probe' = [probe EXCEPT !.st = "done", !.err = r.err]
           /\ config' = IF r.err = NilError THEN r.config ELSE config
    /\ UNCHANGED <<budget, executors, platform, handlerVars>>

NextLoad == LoadApply

SpecLoad == InitLoad /\ [][NextLoad]_vars

\* Events a loaded mapping is offered by the dispatch loop.
LoadEvents ==
    { [id |-> 0, type |-> t, channel |-> 0, note |-> 60, velocity |-> 100,
       controller |-> 0, value |-> 0, program |-> 1] :
        t \in {"note_on", "program_change"} }

\* C31 (as claimed): after a successful Load every mapping the file wrote with
\* "enabled": false has its flag still false, and no event fires it.
C31_DisabledStaysDisabled ==
    (probe.st = "done" /\ probe.op = "Load" /\ probe.err = NilError)
    => \A i \in DOMAIN probe.file.mappings :
          probe.file.mappings[i].enabled = BoolV(FALSE)
          => /\ ~config.mappings[i].enabled
             /\ \A ev \in LoadEvents : ~Fires(config.mappings[i], ev)

\* C38 (as claimed): a channel c in -1..15 written in the file is the channel
\* filter of the configuration Load returns, and a channel outside -1..15
\* makes Load fail.
C38_ChannelIsPreserved ==
    (/\ probe.st = "done"
     /\ probe.op = "Load"
     /\ probe.file.state = "ok"
     /\ probe.file.channel # Absent)
    => LET c == probe.file.channel.n
       IN  IF c \in -1..15
           THEN probe.err = NilError => config.channel = c
           ELSE probe.err # NilError

\* =================================================== AudioSourceExecutor

MaxCycles == 3  \* Execute calls in a behaviour of SpecAudio, cycles in one of SpecCycle

TextSwitch == <<"s", "w", "i", "t", "c", "h">>
TextVolume == <<"v", "o", "l", "u", "m", "e">>
TextCycle  == <<"c", "y", "c", "l", "e">>

\* AudioSourceExecutor.Execute lines 61-64 and Validate lines 167-170
ErrAudioNeedsSource == <<"audio_source-Aktion benoetigt 'source' Parameter">>

RECURSIVE SkipSpaces(_)
\* ss.SkipSpace: the runes of fmt's isSpace table before the number are
\* skipped (U+0009..U+000D without the newline, U+0020, U+0085, U+00A0,
\* U+1680, U+2000..U+200A, U+2028, U+2029, U+202F, U+205F, U+3000).  A rune
\* that has no spelling in a string here goes by its name.  A newline is not
\* white space for Sscanf: the scan stops on it with an error, and it is left
\* at the head of the text for parseInt to see.
SkipSpaces(chars) ==
    IF chars # <<>> /\ Head(chars) \in
            { "\t", "VT", "\f", "\r", " ", "NEL", "NBSP", "U+1680",
              "U+2000", "U+2001", "U+2002", "U+2003", "U+2004", "U+2005",
              "U+2006", "U+2007", "U+2008", "U+2009", "U+200A",
              "U+2028", "U+2029", "U+202F", "U+205F", "U+3000" }
    THEN SkipSpaces(Tail(chars)) ELSE chars

RECURSIVE LeadingDigits(_)
\* ss.scanNumber for %d: the longest run of the digits 0-9; any other
\* character, an underscore included, ends the run.
LeadingDigits(chars) ==
    IF chars = <<>> \/ Head(chars) \notin DOMAIN DigitValue THEN <<>>
    ELSE <<Head(chars)>> \o LeadingDigits(Tail(chars))

\* parseInt (fmt.Sscanf with "%d"): white space is skipped (a newline in it
\* is the error "unexpected newline"), then an optional sign and the longest
\* run of digits are read and handed to strconv.ParseInt in base 10; a text
\* without a digit there is the error "expected integer", and what follows
\* the run is left unread.
parseInt(chars) ==
    LET text   == SkipSpaces(chars)
        signed == text # <<>> /\ Head(text) \in {"+", "-"}
        digits == LeadingDigits(IF signed THEN Tail(text) ELSE text)
    IN  IF (text # <<>> /\ Head(text) = "\n") \/ digits = <<>>
        THEN [ok |-> FALSE, n |-> 0]
        ELSE [ok |-> TRUE,
              n |-> IF signed /\ Head(text) = "-"
                    THEN -DigitsValue(digits, 0) ELSE DigitsValue(digits, 0)]

\* GetAudioSources of linuxAudioController and windowsAudioController: the
\* fixed list of the platform (ID and name of each AudioSource).
GetAudioSources(plat) ==
    [err |-> NilError,
     sources |->
        IF plat.goos = "windows"
        THEN << [id |-> "speakers",      name |-> "Lautsprecher"],
                [id |-> "headphones",    name |-> "Kopfhoerer"],
                [id |-> "hdmi",          name |-> "HDMI Audio"] >>
        ELSE << [id |-> "analog-stereo", name |-> "Analoger Stereo-Ausgang"],
                [id |-> "hdmi-stereo",   name |-> "HDMI Stereo"],
                [id |-> "bluetooth",     name |-> "Bluetooth Audio"] >>]

\* GetDefaultAudioSource of the two controllers: always the same source, the
\* one that is first in the platform's list.
GetDefaultAudioSource(plat) ==
    [err |-> NilError,
     source |-> IF plat.goos = "windows"
                THEN [id |-> "speakers",      name |-> "Lautsprecher"]
                ELSE [id |-> "analog-stereo", name |-> "Analoger Stereo-Ausgang"]]

\* SetDefaultAudioSource, MuteAudioSource, UnmuteAudioSource and
\* SetAudioSourceVolume: each returns nil and stores nothing.
CtlAudio(op, arg) == [err |-> NilError, calls |-> << [op |-> op, arg |-> arg] >>]

\* Execute returns an error before any controller call.
AudioRejected(err) == [err |-> err, calls |-> <<>>]

\* cycleAudioSource with the index of the next source not wrapped: on the
\* last source it stays there.
cycleAudioSourceNoWrap(listed, current, setErr) ==
    LET sources == listed.sources
        asked   == << [op |-> "GetAudioSources", arg |-> ""] >>
    IN  IF listed.err # NilError
        THEN [err |-> <<"fehler beim Abrufen der Audioquellen: ">> \o listed.err,
              calls |-> asked]
        ELSE IF Len(sources) = 0
        THEN [err |-> <<"keine Audioquellen verfuegbar">>, calls |-> asked]
        ELSE IF current.err # NilError
        THEN [err |-> <<"fehler beim Abrufen der aktuellen Audioquelle: ">>
                        \o current.err,
              calls |-> asked \o << [op |-> "GetDefaultAudioSource", arg |-> ""] >>]
        ELSE LET hits == {i \in DOMAIN sources : sources[i].id = current.source.id}
                 nextSource ==
                    IF hits = {} THEN sources[1]
                    ELSE LET i == CHOOSE j \in hits : \A k \in hits : j <= k
                         IN  sources[IF i = Len(sources) THEN i ELSE i + 1]
             IN  [err |-> setErr,
                  calls |-> asked
                            \o << [op |-> "GetDefaultAudioSource", arg |-> ""],
                                  [op |-> "SetDefaultAudioSource",
                                   arg |-> nextSource.id] >>]

\* cycleAudioSource, given what the controller answers: listed is the result
\* of GetAudioSources, current the result of GetDefaultAudioSource and setErr
\* the error of SetDefaultAudioSource.  The next source is the one after the
\* first source whose ID is the current default's, wrapping; the first
\* source when none has that ID.  The error of SetDefaultAudioSource is
\* returned as it is.
cycleAudioSource(listed, current, setErr) ==
    LET sources == listed.sources
        asked   == << [op |-> "GetAudioSources", arg |-> ""] >>
    IN  IF listed.err # NilError
        THEN [err |-> <<"fehler beim Abrufen der Audioquellen: ">> \o listed.err,
              calls |-> asked]
        ELSE IF Len(sources) = 0
        THEN [err |-> <<"keine Audioquellen verfuegbar">>, calls |-> asked]
        ELSE IF current.err # NilError
        THEN [err |-> <<"fehler beim Abrufen der aktuellen Audioquelle: ">>
                        \o current.err,
              calls |-> asked \o << [op |-> "GetDefaultAudioSource", arg |-> ""] >>]
        ELSE LET hits == {i \in DOMAIN sources : sources[i].id = current.source.id}
                 nextSource ==
                    IF hits = {} THEN sources[1]
                    ELSE LET i == CHOOSE j \in hits : \A k \in hits : j <= k
                         IN  sources[(i % Len(sources)) + 1]
             IN  [err |-> setErr,
                  calls |-> asked
                            \o << [op |-> "GetDefaultAudioSource", arg |-> ""],
                                  [op |-> "SetDefaultAudioSource",
                                   arg |-> nextSource.id] >>]

\* Lines 94-114: the 'volume' sub-type, 50 when the parameter is absent or
\* not convertible.
AudioVolume(params) ==
    IF "volume" \notin DOMAIN params THEN 50
    ELSE LET v == params["volume"]
         IN  IF v.t = "int" THEN v.n
             ELSE IF v.t = "float64" THEN TruncTenths(v.tenths)
             ELSE IF v.t = "string" /\ parseInt(v.chars).ok THEN parseInt(v.chars).n
             ELSE 50

\* AudioSourceExecutor.Execute on a parameter bag: the error returned and the
\* controller calls made.  The 'source' parameter is held as a whole string.
AudioExecute(params, plat) ==
    IF "source" \notin DOMAIN params THEN AudioRejected(ErrAudioNeedsSource)
    ELSE IF params["source"].t # "string"
    THEN AudioRejected(<<"'source' Parameter muss ein String sein">>)
    ELSE LET sourceStr  == params["source"].chars
             actionType == IF "type" \in DOMAIN params /\ params["type"].t = "string"
                           THEN params["type"].chars ELSE TextSwitch
         IN  IF actionType = TextSwitch
             THEN CtlAudio("SetDefaultAudioSource", sourceStr)
             ELSE IF actionType = TextMute
             THEN CtlAudio("MuteAudioSource", sourceStr)
             ELSE IF actionType = TextUnmute
             THEN CtlAudio("UnmuteAudioSource", sourceStr)
             ELSE IF actionType = TextVolume
             THEN IF AudioVolume(params) < 0 \/ AudioVolume(params) > 100
                  THEN AudioRejected(ErrVolumeRange(AudioVolume(params)))
                  ELSE CtlAudio("SetAudioSourceVolume",
                                [source |-> sourceStr, volume |-> AudioVolume(params)])
             ELSE IF actionType = TextCycle
             THEN cycleAudioSource(GetAudioSources(plat),
                                   GetDefaultAudioSource(plat),
                                   CtlAudio("SetDefaultAudioSource", "").err)
             ELSE AudioRejected(<<"ungueltiger Aktionstyp: ", actionType>>)

\* validateSource: a source is unknown only when the listing succeeds and no
\* entry has it as ID or name.
validateSource(sourceID, plat) ==
    LET listed == GetAudioSources(plat)
    IN  IF listed.err # NilError THEN NilError
        ELSE IF \E i \in DOMAIN listed.sources :
                    \/ listed.sources[i].id = sourceID
                    \/ listed.sources[i].name = sourceID
        THEN NilError
        ELSE <<"audioquelle nicht gefunden: ", sourceID>>

\* Lines 209-230: the volume parameter when present.
AudioValidateVolume(params) ==
    IF "volume" \notin DOMAIN params THEN NilError
    ELSE LET v == params["volume"]
             parsed == IF v.t = "int" THEN [ok |-> TRUE, n |-> v.n]
                       ELSE IF v.t = "float64"
                       THEN [ok |-> TRUE, n |-> TruncTenths(v.tenths)]
                       ELSE IF v.t = "string" THEN parseInt(v.chars)
                       ELSE [ok |-> FALSE, n |-> 0]
         IN  IF ~parsed.ok THEN ErrBadVolumeParam(v)
             ELSE IF parsed.n < 0 \/ parsed.n > 100 THEN ErrVolumeRange(parsed.n)
             ELSE NilError

\* AudioSourceExecutor.Validate on a parameter bag: the error returned.
AudioValidate(params, plat) ==
    IF "source" \notin DOMAIN params THEN ErrAudioNeedsSource
    ELSE IF params["source"].t # "string"
    THEN <<"'source' Parameter muss ein String sein">>
    ELSE IF params["source"].chars = ""
    THEN <<"'source' Parameter darf nicht leer sein">>
    ELSE LET sourceStr == params["source"].chars
             typeErr ==
                IF "type" \notin DOMAIN params THEN NilError
                ELSE IF params["type"].t # "string"
                THEN <<"'type' Parameter muss ein String sein">>
                ELSE IF params["type"].chars \notin
                          {TextSwitch, TextMute, TextUnmute, TextVolume, TextCycle}
                THEN <<"ungueltiger Typ: ", params["type"].chars>>
                ELSE IF params["type"].chars = TextCycle THEN NilError
                ELSE IF validateSource(sourceStr, plat) # NilError
                THEN <<"ungueltige Audioquelle: ">> \o validateSource(sourceStr, plat)
                ELSE NilError
         IN  IF typeErr # NilError THEN typeErr ELSE AudioValidateVolume(params)

\* The platforms the audio controllers are built for (newAudioController).
AudioPlatforms == { [volume |-> 50, goos |-> g] : g \in {"linux", "windows"} }

\* Parameter bags of audio_source actions.
AudioBags ==
    { LET all == [source |-> s, type |-> t, volume |-> v]
      IN  [k \in {x \in {"source", "type", "volume"} : all[x] # Absent} |-> all[k]] :
        s \in { Absent, StrV("hdmi-stereo"), StrV("Bluetooth Audio"),
                StrV("speakers"), StrV(""), IntV(1), StrV("nosuch") },
        t \in { Absent, StrV(TextSwitch), StrV(TextMute), StrV(TextUnmute),
                StrV(TextVolume), StrV(TextCycle), StrV(<<"n", "e", "x", "t">>),
                IntV(1) },
        v \in { Absent, IntV(30), IntV(101), FloatV(995), StrV(<<"7", "0", "%">>),
                StrV(<<"\t", "4", "2">>), StrV(<<"1", "_", "0">>),
                StrV(<<"VT", "NBSP", "4", "2">>), StrV(<<"NEL", "1", "0", "1">>),
                StrV(<<" ", "\n", "4", "2">>),
                StrV(<<"a", "b", "c">>), BoolV(TRUE) } }

\* An audio_source executor about to validate one action and then execute
\* it up to MaxCycles times.
InitAudio ==
    /\ config = [channel |-> -1, actionDelay |-> 0, inputPort |-> "",
                 mappings |-> <<>>]
    /\ budget = [calls |-> 0, events |-> 0, pool |-> {}]
    /\ platform \in AudioPlatforms
    /\ probe \in { [st |-> "input", op |-> "Validate",
                    action |-> [type |-> "audio_source", parameters |-> b],
                    verr |-> NilError, err |-> NilError, calls |-> <<>>,
                    n |-> 0, cycles |-> 0] :
                   b \in AudioBags }
    /\ HandlerInit

\* One call AudioSourceExecutor.Validate(action); Execute is called next.
AudioValidateApply ==
    /\ probe.st = "input"
    /\ probe.op = "Validate"
    /\ probe' = [probe EXCEPT
                    !.op = "Execute",
                    !.verr = AudioValidate(probe.action.parameters, platform)]
    /\ UNCHANGED <<config, budget, executors, platform, handlerVars>>

\* One call AudioSourceExecutor.Execute(action); cycles counts the calls that
\* ran cycleAudioSource.  No controller call changes the platform.
AudioApply ==
    /\ probe.st = "input"
    /\ probe.op = "Execute"
    /\ probe.n < MaxCycles
    /\ LET r == AudioExecute(probe.action.parameters, platform)
           cycled == r.calls # <<>> /\ r.calls[1].op = "GetAudioSources"
       IN  probe' = [probe EXCEPT
                        !.n = @ + 1,
                        !.cycles = IF cycled THEN @ + 1 ELSE @,
                        !.err = r.err,
                        !.calls = r.calls]
    /\ UNCHANGED <<config, budget, executors, platform, handlerVars>>

NextAudio == AudioValidateApply \/ AudioApply

SpecAudio == InitAudio /\ [][NextAudio]_vars

\* C36 (as claimed): a 'cycle' action without a 'source' parameter is accepted
\* by Validate, by Execute and by the configuration loader's validateAction.
C36_CycleNeedsNoSource ==
    (/\ probe.op = "Execute"
     /\ probe.n >= 1
     /\ "cycles" \in DOMAIN probe
     /\ "source" \notin DOMAIN probe.action.parameters
     /\ "type" \in DOMAIN probe.action.parameters
     /\ probe.action.parameters["type"] = StrV(TextCycle))
    => /\ probe.verr = NilError
       /\ probe.cycles >= 1
       /\ validateAction(probe.action) = NilError

\* The controllers cycleAudioSource may run on: the two that
\* newAudioController builds, whose SetDefaultAudioSource stores nothing and
\* whose default is always their first source, and controllers behind the
\* AudioController interface whose SetDefaultAudioSource takes effect, with the
\* list they report (empty, one to three sources, one list with a repeated
\* ID) and their default source, which may be a source they do not list.
CycleControllers ==
    { [sources |-> GetAudioSources(p).sources,
       default |-> GetDefaultAudioSource(p).source.id,
       stores  |-> FALSE] : p \in AudioPlatforms }
    \cup
    { [sources |-> l, default |-> d, stores |-> TRUE] :
        l \in { <<>>,
                << [id |-> "analog-stereo", name |-> "Analoger Stereo-Ausgang"] >>,
                << [id |-> "analog-stereo", name |-> "Analoger Stereo-Ausgang"],
                   [id |-> "hdmi-stereo",   name |-> "HDMI Stereo"] >>,
                << [id |-> "analog-stereo", name |-> "Analoger Stereo-Ausgang"],
                   [id |-> "hdmi-stereo",   name |-> "HDMI Stereo"],
                   [id |-> "bluetooth",     name |-> "Bluetooth Audio"] >>,
                << [id |-> "analog-stereo", name |-> "Analoger Stereo-Ausgang"],
                   [id |-> "hdmi-stereo",   name |-> "HDMI Stereo"],
                   [id |-> "analog-stereo", name |-> "Bluetooth Audio"] >> },
        d \in {"analog-stereo", "hdmi-stereo", "bluetooth", "usb-headset"} }

\* An audio_source executor on such a controller; the fan-out goroutines are
\* about to run cycleAudioSource, MaxCycles times in all.  pending is where
\* each goroutine stands in its call and the answers it has got so far, done
\* the last call that returned, started and n the calls begun and returned,
\* first the ID of the default source at the start, failed whether a
\* controller call has failed, overlap whether a call began while another
\* was under way.
InitCycle ==
    /\ config = [channel |-> -1, actionDelay |-> 0, inputPort |-> "",
                 mappings |-> <<>>]
    /\ budget = [calls |-> 0, events |-> 0, pool |-> {}]
    /\ platform \in CycleControllers
    /\ probe = [st |-> "input", op |-> "cycleAudioSource",
                started |-> 0, n |-> 0, first |-> platform.default,
                failed |-> FALSE, overlap |-> FALSE,
                pending |-> [c \in Clients |-> [pc |-> "idle"]],
                done |-> [caller |-> 0, failed |-> FALSE,
                          sources |-> <<>>, current |-> "",
                          err |-> NilError, calls |-> <<>>]]
    /\ HandlerInit

\* Lines 129-136: goroutine c begins cycleAudioSource and calls
\* GetAudioSources, which may fail; on the error and on an empty list the
\* call returns.
CycleGetSources(c) ==
    /\ probe.st = "input"
    /\ probe.op = "cycleAudioSource"
    /\ probe.pending[c].pc = "idle"
    /\ probe.started < MaxCycles
    /\ \E bad \in BOOLEAN :
        LET listed == [err |-> IF bad THEN <<"controller: GetAudioSources">>
                               ELSE NilError,
                       sources |-> IF bad THEN <<>> ELSE platform.sources]
            r == cycleAudioSource(listed,
                                  [err |-> NilError,
                                   source |-> [id |-> "", name |-> ""]],
                                  NilError)
            busy == \E o \in Clients \ {c} : probe.pending[o].pc # "idle"
            begun == [probe EXCEPT !.started = @ + 1,
                                   !.overlap = @ \/ busy,
                                   !.failed = @ \/ bad]
        IN  probe' = IF Len(r.calls) = 1
                     THEN [begun EXCEPT
                             !.n = @ + 1,
                             !.done = [caller |-> c, failed |-> bad,
                                       sources |-> listed.sources,
                                       current |-> "",
                                       err |-> r.err, calls |-> r.calls]]
                     ELSE [begun EXCEPT
                             !.pending[c] = [pc |-> "listed", listed |-> listed]]
    /\ UNCHANGED <<config, budget, executors, platform, handlerVars>>

\* Lines 138-142: goroutine c calls GetDefaultAudioSource, which may fail; on
\* the error the call returns.
CycleGetDefault(c) ==
    /\ probe.op = "cycleAudioSource"
    /\ probe.pending[c].pc = "listed"
    /\ \E bad \in BOOLEAN :
        LET listed  == probe.pending[c].listed
            current == [err |-> IF bad THEN <<"controller: GetDefaultAudioSource">>
                                ELSE NilError,
                        source |-> [id |-> IF bad THEN "" ELSE platform.default,
                                    name |-> ""]]
            r == cycleAudioSource(listed, current, NilError)
        IN  probe' = IF Len(r.calls) = 2
                     THEN [probe EXCEPT
                             !.n = @ + 1,
                             !.failed = TRUE,
                             !.pending[c] = [pc |-> "idle"],
                             !.done = [caller |-> c, failed |-> TRUE,
                                       sources |-> listed.sources,
                                       current |-> "",
                                       err |-> r.err, calls |-> r.calls]]
                     ELSE [probe EXCEPT
                             !.pending[c] = [pc |-> "got", listed |-> listed,
                                             current |-> current]]
    /\ UNCHANGED <<config, budget, executors, platform, handlerVars>>

\* Lines 144-161: goroutine c picks the next source, calls
\* SetDefaultAudioSource with its ID and returns what that call returns.  The
\* call may fail; when it does not, a controller that stores the default has
\* the source as its default from now on, and the controllers of
\* newAudioController are as before.
CycleSetDefault(c) ==
    /\ probe.op = "cycleAudioSource"
    /\ probe.pending[c].pc = "got"
    /\ \E bad \in BOOLEAN :
        LET listed  == probe.pending[c].listed
            current == probe.pending[c].current
            r == cycleAudioSource(listed, current,
                                  IF bad THEN <<"controller: SetDefaultAudioSource">>
                                  ELSE NilError)
            last == r.calls[Len(r.calls)]
        IN  /\ probe' = [probe EXCEPT
                            !.n = @ + 1,
                            !.failed = @ \/ bad,
                            !.pending[c] = [pc |-> "idle"],
                            !.done = [caller |-> c, failed |-> bad,
                                      sources |-> listed.sources,
                                      current |-> current.source.id,
                                      err |-> r.err, calls |-> r.calls]]
            /\ platform' = IF platform.stores /\ ~bad
                           THEN [platform EXCEPT !.default = last.arg]
                           ELSE platform
    /\ UNCHANGED <<config, budget, executors, handlerVars>>

NextCycle ==
    \E c \in Clients :
        \/ CycleGetSources(c)
        \/ CycleGetDefault(c)
        \/ CycleSetDefault(c)

SpecCycle == InitCycle /\ [][NextCycle]_vars

\* Index of the first source whose ID is id, 0 when there is none.
FirstIndexOf(sources, id) ==
    IF \E i \in DOMAIN sources : sources[i].id = id
    THEN CHOOSE i \in DOMAIN sources :
            /\ sources[i].id = id
            /\ \A k \in DOMAIN sources : sources[k].id = id => i <= k
    ELSE 0

\* No two sources of the list have the same ID.
DistinctSources(sources) ==
    \A i, j \in DOMAIN sources : sources[i].id = sources[j].id => i = j

\* What the call of cycleAudioSource that returned last has done when none of
\* its controller calls failed.  On an empty list: the error after the one
\* call GetAudioSources, the default as at the start.  Otherwise: no error,
\* and SetDefaultAudioSource called last with the ID of the source after the
\* first one that has the ID GetDefaultAudioSource answered, wrapping, or of
\* the first source when the list has no such ID; a controller that stores
\* the default now has that source as default.
CycleStepDone ==
    (probe.done.caller # 0 /\ ~probe.done.failed)
    => LET sources == probe.done.sources
           i       == FirstIndexOf(sources, probe.done.current)
           next    == IF i = 0 THEN sources[1].id
                      ELSE sources[(i % Len(sources)) + 1].id
       IN  IF sources = <<>>
           THEN /\ probe.done.err = <<"keine Audioquellen verfuegbar">>
                /\ probe.done.calls = << [op |-> "GetAudioSources", arg |-> ""] >>
                /\ platform.default = probe.first
           ELSE /\ probe.done.err = NilError
                /\ probe.done.calls[Len(probe.done.calls)] =
                        [op |-> "SetDefaultAudioSource", arg |-> next]
                /\ platform.stores => platform.default = next

\* n calls of cycleAudioSource have returned one after the other, none began
\* while another was under way, no controller call failed, and the list has
\* n sources with n different IDs.
CycledThroughList ==
    /\ probe.op = "cycleAudioSource"
    /\ ~probe.failed
    /\ ~probe.overlap
    /\ platform.sources # <<>>
    /\ DistinctSources(platform.sources)
    /\ probe.n = Len(platform.sources)

====
